---------------------------- MODULE Spec2Model ----------------------------
(***************************************************************************)
(* Verification model of the vixai query-resolution pipeline:              *)
(*   QueryChain.execute / executeStep / validateInput / formatResponse     *)
(*   (src/src/QueryChain.ts) and SQLAssistant.query / generateSQLQuery /   *)
(*   getSchemaInfo / initialize / processQuery (src/src/SQLAssistant.ts),  *)
(*   ConnectionManager.createSafeConnection (src/unnamed/part_000).        *)
(*                                                                         *)
(* A text (a JavaScript string) is a sequence of strings: each element is  *)
(* either one character or a literal chunk copied from the source (a       *)
(* message the code builds as a whole).  The empty text is << >>.          *)
(***************************************************************************)
EXTENDS Integers, Sequences, FiniteSets, TLC

(***************************************************************************)
(* Bounds of the model.                                                    *)
(***************************************************************************)
\* The clock (Date.now()) runs from 0 to MaxClock.
MaxClock == 2
\* Number of calls of the public entry points on the one instance.
MaxCalls == 2

(***************************************************************************)
(* JavaScript values.                                                      *)
(***************************************************************************)
Undefined == [k |-> "undefined"]
Null == [k |-> "null"]
Str(t) == [k |-> "string", v |-> t]
Num(n) == [k |-> "number", v |-> n]
Bool(b) == [k |-> "boolean", v |-> b]
Obj(keys, vals) == [k |-> "object", keys |-> keys, vals |-> vals]
Arr(elems) == [k |-> "array", v |-> elems]

\* ToBoolean of a JavaScript value (the conditions `x || y`, `if (x)`, `!x`).
Truthy(x) ==
  CASE x.k \in {"undefined", "null"} -> FALSE
    [] x.k = "string" -> Len(x.v) > 0
    [] x.k = "number" -> x.v # 0
    [] x.k = "boolean" -> x.v
    [] OTHER -> TRUE

\* `a || b`
OrElse(a, b) == IF Truthy(a) THEN a ELSE b

(***************************************************************************)
(* String operations of the JavaScript runtime, on texts.                  *)
(***************************************************************************)
UpperChars == <<"A", "B", "C", "D", "E", "F", "G", "H", "I", "J", "K", "L", "M",
                "N", "O", "P", "Q", "R", "S", "T", "U", "V", "W", "X", "Y", "Z">>
LowerChars == <<"a", "b", "c", "d", "e", "f", "g", "h", "i", "j", "k", "l", "m",
                "n", "o", "p", "q", "r", "s", "t", "u", "v", "w", "x", "y", "z">>

\* The characters \s matches and trim() strips (those of the model's alphabet).
WhiteSpace == {" ", "\t", "\n"}
\* The characters `.` does not match.
LineTerminators == {"\n"}

\* The lower-case letter of each upper-case letter.
LowerOf ==
  [c \in {UpperChars[i] : i \in 1..Len(UpperChars)} |->
     LowerChars[CHOOSE i \in 1..Len(UpperChars) : UpperChars[i] = c]]

LowerChar(c) == IF c \in DOMAIN LowerOf THEN LowerOf[c] ELSE c

\* String.prototype.toLowerCase
ToLowerCase(s) == [i \in 1..Len(s) |-> LowerChar(s[i])]

\* The upper-case letter of each lower-case letter.
UpperOf ==
  [c \in {LowerChars[i] : i \in 1..Len(LowerChars)} |->
     UpperChars[CHOOSE i \in 1..Len(LowerChars) : LowerChars[i] = c]]

UpperChar(c) == IF c \in DOMAIN UpperOf THEN UpperOf[c] ELSE c

\* String.prototype.toUpperCase
ToUpperCase(s) == [i \in 1..Len(s) |-> UpperChar(s[i])]

\* String.prototype.trim
Trim(s) ==
  LET keep == {i \in 1..Len(s) : s[i] \notin WhiteSpace}
  IN IF keep = {} THEN << >>
     ELSE LET lo == CHOOSE i \in keep : \A j \in 1..(i - 1) : s[j] \in WhiteSpace
              hi == CHOOSE i \in keep : \A j \in (i + 1)..Len(s) : s[j] \in WhiteSpace
          IN SubSeq(s, lo, hi)

\* Whether p occurs in s at position i.
OccursAt(s, p, i) ==
  /\ i >= 1
  /\ i + Len(p) - 1 <= Len(s)
  /\ \A j \in 1..Len(p) : s[i + j - 1] = p[j]

\* String.prototype.startsWith
StartsWith(s, p) == OccursAt(s, p, 1)

\* String.prototype.includes
Includes(s, p) == \E i \in 1..(Len(s) - Len(p) + 1) : OccursAt(s, p, i)

\* String.prototype.slice(0, n)
SliceTo(s, n) == SubSeq(s, 1, IF Len(s) < n THEN Len(s) ELSE n)

\* Array.prototype.join
RECURSIVE Join(_, _)
Join(parts, sep) ==
  IF Len(parts) = 0 THEN << >>
  ELSE IF Len(parts) = 1 THEN parts[1]
  ELSE parts[1] \o sep \o Join(Tail(parts), sep)

(***************************************************************************)
(* Regular expressions of the question denylist.  A pattern is a sequence  *)
(* of atoms: a lower-case character (matched case-insensitively, flag i),  *)
(* "\\s+" (one or more white-space characters) or ".*" (any run of         *)
(* characters other than line terminators).                                *)
(***************************************************************************)
RECURSIVE MatchHere(_, _, _, _)
MatchHere(pat, pi, s, si) ==
  IF pi > Len(pat) THEN TRUE
  ELSE IF pat[pi] = "\\s+" THEN
    /\ si <= Len(s)
    /\ s[si] \in WhiteSpace
    /\ \/ MatchHere(pat, pi + 1, s, si + 1)
       \/ MatchHere(pat, pi, s, si + 1)
  ELSE IF pat[pi] = ".*" THEN
    \/ MatchHere(pat, pi + 1, s, si)
    \/ /\ si <= Len(s)
       /\ s[si] \notin LineTerminators
       /\ MatchHere(pat, pi, s, si + 1)
  ELSE
    /\ si <= Len(s)
    /\ LowerChar(s[si]) = pat[pi]
    /\ MatchHere(pat, pi + 1, s, si + 1)

\* RegExp.prototype.test for an unanchored pattern
RegexTest(pat, s) == \E i \in 1..(Len(s) + 1) : MatchHere(pat, 1, s, i)

(***************************************************************************)
(* Thrown values and the outcome of an awaited operation.                  *)
(***************************************************************************)
\* new Error(message)
Err(msg) == [k |-> "Error", message |-> msg]

Returned(v) == [thrown |-> FALSE, value |-> v]
Thrown(e) == [thrown |-> TRUE, value |-> e]

\* String(x) for the values a collaborator throws that are not Errors.
ToStringValue(x) ==
  CASE x.k = "string" -> x.v
    [] x.k = "undefined" -> <<"undefined">>
    [] x.k = "null" -> <<"null">>
    [] x.k = "number" -> <<ToString(x.v)>>
    [] OTHER -> <<"[object Object]">>

\* error instanceof Error ? error.message : String(error)
ErrorMessageOf(e) == IF e.k = "Error" THEN e.message ELSE ToStringValue(e)

(***************************************************************************)
(* QueryChain.validateInput                                                *)
(***************************************************************************)
MaxQuestionLength == 1000

dangerousPatterns ==
  << <<"d", "r", "o", "p", "\\s+", "t", "a", "b", "l", "e">>,
     <<"d", "e", "l", "e", "t", "e", "\\s+", "f", "r", "o", "m">>,
     <<"u", "p", "d", "a", "t", "e", "\\s+", ".*", "s", "e", "t">>,
     <<"i", "n", "s", "e", "r", "t", "\\s+", "i", "n", "t", "o">>,
     <<"a", "l", "t", "e", "r", "\\s+", "t", "a", "b", "l", "e">>,
     <<"c", "r", "e", "a", "t", "e", "\\s+", "t", "a", "b", "l", "e">>,
     <<"t", "r", "u", "n", "c", "a", "t", "e">> >>

MsgEmptyQuestion == <<"La question ne peut pas être vide">>
MsgTooLong == <<"La question est trop longue (maximum 1000 caractères)">>
MsgNotAuthorized == <<"La question contient des opérations non autorisées">>

\* A denylist loop that tests no pattern.
MatchesDenylist_Never(question) == FALSE

MatchesDenylist(question) ==
  \E p \in 1..Len(dangerousPatterns) : RegexTest(dangerousPatterns[p], question)

\* validateInput without the length check.
validateInput_NoLengthCheck(question) ==
  IF Len(question) = 0 \/ Len(Trim(question)) = 0
    THEN Thrown(Err(MsgEmptyQuestion))
  ELSE IF MatchesDenylist(question)
    THEN Thrown(Err(MsgNotAuthorized))
  ELSE Returned(Obj(<<"valid">>, <<Bool(TRUE)>>))

\* validateInput with the denylist tested before the length.
validateInput_DenylistFirst(question) ==
  IF Len(question) = 0 \/ Len(Trim(question)) = 0
    THEN Thrown(Err(MsgEmptyQuestion))
  ELSE IF MatchesDenylist(question)
    THEN Thrown(Err(MsgNotAuthorized))
  ELSE IF Len(question) > MaxQuestionLength
    THEN Thrown(Err(MsgTooLong))
  ELSE Returned(Obj(<<"valid">>, <<Bool(TRUE)>>))

validateInput(question) ==
  IF Len(question) = 0 \/ Len(Trim(question)) = 0
    THEN Thrown(Err(MsgEmptyQuestion))
  ELSE IF Len(question) > MaxQuestionLength
    THEN Thrown(Err(MsgTooLong))
  ELSE IF MatchesDenylist(question)
    THEN Thrown(Err(MsgNotAuthorized))
  ELSE Returned(Obj(<<"valid">>, <<Bool(TRUE)>>))

(***************************************************************************)
(* SQLAssistant.generateSQLQuery, after the generation service answered:   *)
(* cleaning of the raw text and the SELECT check.                          *)
(***************************************************************************)
\* The backtick character (the module's lexer has no backtick in strings).
BT == "<backtick>"
Fence == <<BT, BT, BT>>

\* query.replace(/```(?:sql)?/g, "")
\* The text from position i on: what stands before the next fence is kept,
\* the fence and an "sql" that follows it are dropped, and the search goes
\* on behind them.
RECURSIVE RemoveFencesFrom(_, _)
RemoveFencesFrom(s, i) ==
  IF i > Len(s) THEN << >>
  ELSE LET fences == {j \in i..Len(s) : OccursAt(s, Fence, j)}
       IN IF fences = {} THEN SubSeq(s, i, Len(s))
          ELSE LET next == CHOOSE j \in fences : \A k \in fences : j <= k
               IN SubSeq(s, i, next - 1)
                    \o (IF OccursAt(s, <<"s", "q", "l">>, next + 3)
                          THEN RemoveFencesFrom(s, next + 6)
                          ELSE RemoveFencesFrom(s, next + 3))

\* response.text().trim(), then the replace, then trim()
CleanQuery(raw) == Trim(RemoveFencesFrom(Trim(raw), 1))

MsgOnlySelect == <<"Only SELECT queries are allowed">>

BeginsWithSelect(query) ==
  StartsWith(ToLowerCase(query), <<"s", "e", "l", "e", "c", "t">>)

\* PromptManager.validateSQLSyntax: its result is only logged.
validateSQLSyntax(dbType, query) ==
  LET upperQuery == ToUpperCase(query)
      general == IF ~Includes(upperQuery, <<"S", "E", "L", "E", "C", "T">>)
                   THEN <<"La requête doit contenir SELECT">>
                   ELSE << >>
      specific ==
        CASE dbType = "sqlite" /\ Includes(upperQuery, <<"I", "L", "I", "K", "E">>) ->
               <<"SQLite ne supporte pas ILIKE, utilisez LIKE">>
          [] dbType = "mysql" /\ Includes(upperQuery, <<"S", "E", "R", "I", "A", "L">>) ->
               <<"MySQL utilise AUTO_INCREMENT au lieu de SERIAL">>
          [] OTHER -> << >>
      errors == general \o specific
  IN [valid |-> Len(errors) = 0, errors |-> errors]

\* generateSQLQuery without its SELECT check.
generateSQLQuery_NoSelectCheck(dbType, raw) == Returned(Str(CleanQuery(raw)))

\* A generation that rejects what the dialect linter flags.
generateSQLQuery_LinterBlocks(dbType, raw) ==
  LET query == CleanQuery(raw)
  IN IF ~BeginsWithSelect(query)
       THEN Thrown(Err(MsgOnlySelect))
     ELSE IF ~validateSQLSyntax(dbType, query).valid
       THEN Thrown(Err(validateSQLSyntax(dbType, query).errors))
     ELSE Returned(Str(query))

\* The part of generateSQLQuery after `await result.response`.
generateSQLQuery(dbType, raw) ==
  LET query == CleanQuery(raw)
  IN IF ~BeginsWithSelect(query)
       THEN Thrown(Err(MsgOnlySelect))
       ELSE LET syntaxValidation == validateSQLSyntax(dbType, query)
            IN Returned(Str(query))

(***************************************************************************)
(* QueryChain.formatResponse.  The response is a text whose lines end with *)
(* "\n".  A row is an object Obj(keys, vals); a cell is a JavaScript value.*)
(***************************************************************************)
MaxDisplayRows == 10
MaxCellLength == 50

TypeErrorNullish == Err(<<"Cannot convert undefined or null to object">>)
TypeErrorRead == Err(<<"Cannot read properties of null">>)

\* dbType.toUpperCase()
UpperName(dbType) ==
  CASE dbType = "sqlite" -> "SQLITE"
    [] dbType = "postgresql" -> "POSTGRESQL"
    [] dbType = "mysql" -> "MYSQL"
    [] dbType = "mariadb" -> "MARIADB"

\* The decimal digits of the integers the model formats.
Digits(n) == <<ToString(n)>>

\* Object.keys(x) of a value that is neither null nor undefined.
ObjectKeys(x) ==
  CASE x.k = "object" -> x.keys
    [] x.k = "array" -> [i \in 1..Len(x.v) |-> ToString(i - 1)]
    [] OTHER -> << >>

\* row[col] of a value that is neither null nor undefined.
GetProp(row, col) ==
  CASE row.k = "object" ->
         IF \E i \in 1..Len(row.keys) : row.keys[i] = col
           THEN row.vals[CHOOSE i \in 1..Len(row.keys) : row.keys[i] = col]
           ELSE Undefined
    [] row.k = "array" ->
         IF \E i \in 1..Len(row.v) : ToString(i - 1) = col
           THEN row.v[CHOOSE i \in 1..Len(row.v) : ToString(i - 1) = col]
           ELSE Undefined
    [] OTHER -> Undefined

Nullish(x) == x.k \in {"undefined", "null"}

\* String(value || ""), cut to 47 characters and "..." beyond 50
FormatCell(value) ==
  LET strValue == IF Truthy(value) THEN ToStringValue(value) ELSE << >>
  IN IF Len(strValue) > MaxCellLength
       THEN SubSeq(strValue, 1, MaxCellLength - 3) \o <<"...">>
       ELSE strValue

\* `| ${values.join(" | ")} |\n`
TableLine(cells) == <<"| ">> \o Join(cells, <<" | ">>) \o <<" |", "\n">>

\* a + b of the reduce: numbers add, anything else concatenates.
JsAdd(a, b) ==
  IF a.k = "number" /\ b.k = "number" THEN Num(a.v + b.v)
  ELSE Str(ToStringValue(a) \o ToStringValue(b))

RECURSIVE Reduce(_, _)
Reduce(values, acc) ==
  IF Len(values) = 0 THEN acc ELSE Reduce(Tail(values), JsAdd(acc, values[1]))

\* (sum / count).toFixed(2) of a sum of small non-negative integers
ToFixed2(sum, count) ==
  IF sum.k # "number" THEN <<"NaN">>
  ELSE LET hundredths == (sum.v * 200 + count) \div (2 * count)
           frac == hundredths % 100
       IN Digits(hundredths \div 100) \o <<".">>
            \o (IF frac < 10 THEN <<"0">> ELSE << >>) \o Digits(frac)

RECURSIVE SelectSeq2(_, _)
SelectSeq2(s, keep) ==
  IF Len(s) = 0 THEN << >>
  ELSE (IF keep[1] THEN <<s[1]>> ELSE << >>)
         \o SelectSeq2(Tail(s), Tail(keep))

\* The statistics line of one column, "" when every value is null.
ColumnStats(data, col) ==
  LET all == [i \in 1..Len(data) |-> GetProp(data[i], col)]
      values == SelectSeq2(all, [i \in 1..Len(all) |-> ~Nullish(all[i])])
  IN IF Len(values) = 0 THEN << >>
     ELSE IF values[1].k = "number"
       THEN LET sum == Reduce(values, Num(0))
            IN <<"- ", col, " : somme = ">> \o ToStringValue(sum)
                 \o <<", moyenne = ">> \o ToFixed2(sum, Len(values)) \o <<"\n">>
       ELSE LET uniqueValues ==
                  Cardinality({ToStringValue(values[i]) : i \in 1..Len(values)})
            IN <<"- ", col, " : ", ToString(uniqueValues), " valeur">>
                 \o (IF uniqueValues > 1 THEN <<"s">> ELSE << >>)
                 \o <<" unique">>
                 \o (IF uniqueValues > 1 THEN <<"s">> ELSE << >>) \o <<"\n">>

RECURSIVE ConcatAll(_)
ConcatAll(texts) ==
  IF Len(texts) = 0 THEN << >> ELSE texts[1] \o ConcatAll(Tail(texts))

\* JSON.stringify(data, null, 2) of an object of numbers and strings
JsonStringify(data) ==
  IF data.k = "object"
    THEN <<"{">>
           \o Join([i \in 1..Len(data.keys) |->
                      <<"\n", "  ", "\"", data.keys[i], "\"", ": ">>
                        \o ToStringValue(data.vals[i])], <<",">>)
           \o <<"\n", "}">>
    ELSE ToStringValue(data)

ResponseHead(question, sqlQuery, dbType) ==
  <<"## Réponse à votre question", "\n", "\n">>
    \o <<"**Question :** ">> \o question \o <<"\n", "\n">>
    \o <<"**Requête SQL exécutée** (", UpperName(dbType), ") :", "\n">>
    \o <<BT, BT, BT, "s", "q", "l", "\n">> \o sqlQuery
    \o <<"\n", BT, BT, BT, "\n", "\n">>

ResponseFoot(dbType) ==
  <<"\n", "-", "-", "-", "\n">>
    \o <<"*Base de données : ", UpperName(dbType), "*", "\n">>
    \o <<"*Assistant IA : Google Gemini*", "\n">>

\* The branch of a non-empty array without the separator line.
ResponseTable_NoSeparator(data) ==
  LET columns == ObjectKeys(data[1])
  IN <<"**Résultats** (", ToString(Len(data)), " ligne", ") :", "\n", "\n">>
       \o TableLine([c \in 1..Len(columns) |-> <<columns[c]>>])
       \o ConcatAll([r \in 1..Len(data) |->
            TableLine([c \in 1..Len(columns) |->
                         FormatCell(GetProp(data[r], columns[c]))])])

\* The branch of a non-empty array.
ResponseTable(data) ==
  LET n == Len(data)
      columns == ObjectKeys(data[1])
      shown == IF n < MaxDisplayRows THEN n ELSE MaxDisplayRows
  IN <<"**Résultats** (", ToString(n), " ligne">>
       \o (IF n > 1 THEN <<"s">> ELSE << >>) \o <<") :", "\n", "\n">>
       \o TableLine([c \in 1..Len(columns) |-> <<columns[c]>>])
       \o TableLine([c \in 1..Len(columns) |-> <<"-", "-", "-">>])
       \o ConcatAll([r \in 1..shown |->
            TableLine([c \in 1..Len(columns) |->
                         FormatCell(GetProp(data[r], columns[c]))])])
       \o (IF n > MaxDisplayRows
             THEN <<"\n", "*... et ", ToString(n - MaxDisplayRows),
                    " autres lignes*", "\n">>
             ELSE << >>)
       \o <<"\n", "**Statistiques :**", "\n">>
       \o <<"- Nombre total de résultats : ", ToString(n), "\n">>
       \o ConcatAll([c \in 1..Len(columns) |-> ColumnStats(data, columns[c])])

formatResponse(question, sqlQuery, data, dbType) ==
  IF data.k = "array" /\ Len(data.v) > 0
    THEN IF Nullish(data.v[1]) THEN Thrown(TypeErrorNullish)
         ELSE IF Len(ObjectKeys(data.v[1])) > 0
                   /\ \E r \in 1..Len(data.v) : Nullish(data.v[r])
           THEN Thrown(TypeErrorRead)
         ELSE Returned(Str(ResponseHead(question, sqlQuery, dbType)
                             \o ResponseTable(data.v) \o ResponseFoot(dbType)))
  ELSE IF data.k = "array"
    THEN Returned(Str(ResponseHead(question, sqlQuery, dbType)
           \o <<"**Résultats :** Aucun résultat trouvé", "\n", "\n">>
           \o <<"**Suggestion :** Essayez de reformuler votre question ou vérifiez les données disponibles.", "\n">>
           \o ResponseFoot(dbType)))
  ELSE IF Truthy(data)
    THEN Returned(Str(ResponseHead(question, sqlQuery, dbType)
           \o <<"**Résultat :** ">> \o JsonStringify(data) \o <<"\n">>
           \o ResponseFoot(dbType)))
  ELSE Returned(Str(ResponseHead(question, sqlQuery, dbType)
           \o <<"**Résultats :** Impossible d'afficher les résultats", "\n">>
           \o ResponseFoot(dbType)))

(***************************************************************************)
(* ConnectionManager.createSafeConnection.  Each tier builds a handle and  *)
(* checks it with SELECT 1; o1, o2, o3 are the outcomes of the standard,   *)
(* restricted and direct tier: Returned(handle) or Thrown(error).          *)
(***************************************************************************)
\* A database handle (a Knex instance) with the pool it was built with.
Handle(pool) == [k |-> "handle", pool |-> pool]

PERMISSION_DENIED == <<"p", "e", "r", "m", "i", "s", "s", "i", "o", "n", " ", "d", "e", "n", "i", "e", "d">>
INSUFFICIENT == <<"i", "n", "s", "u", "f", "f", "i", "c", "i", "e", "n", "t">>
ACCESS_DENIED == <<"a", "c", "c", "e", "s", "s", " ", "d", "e", "n", "i", "e", "d">>
UNAUTHORIZED == <<"u", "n", "a", "u", "t", "h", "o", "r", "i", "z", "e", "d">>

\* A check that compares the message without lower-casing it.
isPermissionError_CaseSensitive(error) ==
  LET message == ErrorMessageOf(error)
  IN \/ Includes(message, PERMISSION_DENIED)
     \/ Includes(message, INSUFFICIENT)
     \/ Includes(message, ACCESS_DENIED)
     \/ Includes(message, UNAUTHORIZED)

isPermissionError(error) ==
  LET message == ToLowerCase(ErrorMessageOf(error))
  IN \/ Includes(message, PERMISSION_DENIED)
     \/ Includes(message, INSUFFICIENT)
     \/ Includes(message, ACCESS_DENIED)
     \/ Includes(message, UNAUTHORIZED)

createSafeConnection(o1, o2, o3) ==
  LET d1 == <<<<"Tentative de connexion standard...">>>>
  IN IF ~o1.thrown
       THEN [success |-> TRUE, connection |-> o1.value, method |-> Str(<<"standard">>),
             error |-> Undefined,
             diagnostics |-> d1 \o <<<<"Connexion standard réussie">>>>,
             attempts |-> <<"standard">>]
     ELSE
       LET d2 == d1 \o << <<"Connexion standard échouée: ">>
                            \o SliceTo(ErrorMessageOf(o1.value), 100) \o <<"...">> >>
           restricted == isPermissionError(o1.value)
           d3 == IF restricted
                   THEN d2 \o <<<<"Tentative en mode restreint (permissions limitées)...">>>>
                   ELSE d2
       IN IF restricted /\ ~o2.thrown
            THEN [success |-> TRUE, connection |-> o2.value,
                  method |-> Str(<<"restricted">>), error |-> Undefined,
                  diagnostics |-> d3 \o <<<<"Connexion restreinte réussie">>>>,
                  attempts |-> <<"standard", "restricted">>]
          ELSE
            LET d4 == IF restricted
                        THEN d3 \o << <<"Mode restreint échoué: ">>
                                        \o SliceTo(ErrorMessageOf(o2.value), 100)
                                        \o <<"...">> >>
                        ELSE d3
                d5 == d4 \o <<<<"Tentative avec SQLAlchemy direct...">>>>
                tried == IF restricted THEN <<"standard", "restricted", "direct">>
                                       ELSE <<"standard", "direct">>
            IN IF ~o3.thrown
                 THEN [success |-> TRUE, connection |-> o3.value,
                       method |-> Str(<<"direct">>), error |-> Undefined,
                       diagnostics |-> d5 \o <<<<"Connexion SQLAlchemy directe réussie">>>>,
                       attempts |-> tried]
                 ELSE [success |-> FALSE, connection |-> Undefined,
                       method |-> Undefined,
                       error |-> Str(ErrorMessageOf(o3.value)),
                       diagnostics |-> d5 \o <<<<"Toutes les tentatives ont échoué">>,
                                               <<"Dernière erreur: ">>
                                                 \o SliceTo(ErrorMessageOf(o3.value), 200)
                                                 \o <<"...">> >>,
                       attempts |-> tried]

(***************************************************************************)
(* SQLAssistant.initialize, initializeWithUrl, initializeWithConfig.       *)
(***************************************************************************)
MsgAlreadyInitialized == <<"Already initialized">>
MsgNoConfig == <<"Either databaseUrl or dbConfig is required">>
MsgInitFailed == <<"Database initialization failed: ">>

\* An initializeWithUrl that reports the error without the diagnostics.
initializeWithUrl_NoDiagnostics(result) ==
  IF ~result.success
    THEN Thrown(Err(<<"Failed to connect to database: ">>
                      \o ToStringValue(result.error)))
  ELSE IF ~Truthy(result.connection)
    THEN Thrown(Err(<<"Connection object is null">>))
  ELSE Returned(result.connection)

\* initializeWithUrl on the result of createSafeConnection
initializeWithUrl(result) ==
  IF ~result.success
    THEN Thrown(Err(<<"Failed to connect to database: ">>
                      \o ToStringValue(result.error) \o <<"\n">>
                      \o <<"Connection diagnostics:", "\n">>
                      \o (IF Len(Join(result.diagnostics, <<"\n">>)) > 0
                            THEN Join(result.diagnostics, <<"\n">>)
                            ELSE <<"No diagnostics available">>)))
  ELSE IF ~Truthy(result.connection)
    THEN Thrown(Err(<<"Connection object is null">>))
  ELSE Returned(result.connection)

\* validateDatabaseConfig: the required fields that are missing
MissingVars(dbType, config) ==
  IF dbType = "sqlite" THEN << >>
  ELSE (IF Truthy(config.user) THEN << >> ELSE <<<<"DB_USER">>>>)
    \o (IF Truthy(config.password) THEN << >> ELSE <<<<"DB_PASSWORD">>>>)
    \o (IF Truthy(config.host) THEN << >> ELSE <<<<"DB_HOST">>>>)
    \o (IF Truthy(config.database) THEN << >> ELSE <<<<"DB_NAME">>>>)

\* The body of initialize's try block: Returned(handle) or Thrown(error).
\* o1, o2, o3 are the outcomes of the three connection tiers.
InitializeBody(params, dbType, o1, o2, o3) ==
  IF Truthy(params.databaseUrl)
    THEN initializeWithUrl(createSafeConnection(o1, o2, o3))
  ELSE IF Truthy(params.dbConfig)
    THEN IF Len(MissingVars(dbType, params.dbConfig)) > 0
           THEN Thrown(Err(<<"Missing required environment variables for ", dbType, ": ">>
                             \o Join(MissingVars(dbType, params.dbConfig), <<", ">>)))
           ELSE initializeWithUrl(createSafeConnection(o1, o2, o3))
  ELSE Thrown(Err(MsgNoConfig))

\* An initialize that tests initParams inside its try block, so that the catch
\* wraps the error.
initialize_GuardInsideTry(params, dbType, o1, o2, o3) ==
  LET r == IF ~Truthy(params) THEN Thrown(Err(MsgAlreadyInitialized))
           ELSE InitializeBody(params, dbType, o1, o2, o3)
  IN IF r.thrown
       THEN Thrown(Err(MsgInitFailed
              \o (IF r.value.k = "Error" THEN r.value.message
                                         ELSE <<"Unknown error">>)))
       ELSE r

\* initialize: Returned(handle) on success, Thrown(error) otherwise.
initialize(params, dbType, o1, o2, o3) ==
  IF ~Truthy(params) THEN Thrown(Err(MsgAlreadyInitialized))
  ELSE LET r == InitializeBody(params, dbType, o1, o2, o3)
       IN IF r.thrown
            THEN Thrown(Err(MsgInitFailed
                   \o (IF r.value.k = "Error" THEN r.value.message
                                              ELSE <<"Unknown error">>)))
            ELSE r

(***************************************************************************)
(* Inputs: what callers pass and what the collaborators answer.            *)
(***************************************************************************)
DatabaseTypes == {"sqlite", "postgresql", "mysql", "mariadb"}

\* The dialects the assistant is constructed with: the one without required
\* connection fields and one with them.
ConstructedTypes == {"sqlite", "postgresql"}

Q_SALAIRE == <<"Q", "u", "e", "l", " ", "c", "l", "i", "e", "n", "t", " ", "a", " ", "l", "e", " ", "p", "l", "u", "s", " ", "g", "r", "a", "n", "d", " ", "s", "a", "l", "a", "i", "r", "e", " ", "?">>
Q_DROP == <<"D", "R", "O", "P", " ", "T", "A", "B", "L", "E", " ", "u", "s", "e", "r", "s">>
Q_DELETE == <<"P", "l", "e", "a", "s", "e", " ", "d", "e", "l", "e", "t", "e", " ", " ", "f", "r", "o", "m", " ", "x">>
Q_UPDATE == <<"u", "p", "d", "a", "t", "e", "\t", "u", "s", "e", "r", "s", " ", "n", "o", "w", " ", "s", "e", "t">>
Q_BLANK == <<" ", "\n", " ">>
Q_EMPTY == << >>
Q_TOO_LONG == [i \in 1..(MaxQuestionLength + 1) |-> "a"]

Questions ==
  {Q_SALAIRE, Q_DROP, Q_DELETE, Q_UPDATE, Q_BLANK, Q_EMPTY, Q_TOO_LONG}

G_USERS == <<"S", "E", "L", "E", "C", "T", " ", "*", " ", "F", "R", "O", "M", " ", "u", "s", "e", "r", "s", " ", "L", "I", "M", "I", "T", " ", "1", "0", "0">>
G_FENCED == <<BT, BT, BT, "s", "q", "l", "\n", "s", "e", "l", "e", "c", "t", " ", "a", " ", "i", "l", "i", "k", "e", " ", "b", "\n", BT, BT, BT, " ">>
G_DELETE == <<"D", "E", "L", "E", "T", "E", " ", "F", "R", "O", "M", " ", "u", "s", "e", "r", "s">>
G_STACKED == <<"S", "E", "L", "E", "C", "T", " ", "1", ";", " ", "D", "R", "O", "P", " ", "T", "A", "B", "L", "E", " ", "u", "s", "e", "r", "s">>
G_FENCED_UPPER == <<BT, BT, BT, "S", "Q", "L", "\n", "S", "E", "L", "E", "C", "T", " ", "1", BT, BT, BT>>
G_EMPTY == << >>

\* Texts the generation service returns.
GeneratedTexts ==
  {G_USERS, G_FENCED, G_DELETE, G_STACKED, G_FENCED_UPPER, G_EMPTY}

\* Values a collaborator (driver, generation service) throws.
ThrownValues ==
  {Err(<<"p", "e", "r", "m", "i", "s", "s", "i", "o", "n", " ", "d", "e", "n", "i", "e", "d", " ", "f", "o", "r", " ", "r", "e", "l", "a", "t", "i", "o", "n", " ", "u", "s", "e", "r", "s">>),
   Err(<<"connect ECONNREFUSED">>), Err(<< >>), Str(<<"timeout">>)}

Row(id, name) == Obj(<<"id", "name">>, <<id, name>>)

R_ONE == Arr(<<Row(Num(1), Str(<<"T", "e", "s", "t", " ", "U", "s", "e", "r">>))>>)
R_NULLS == Arr(<<Row(Num(1), Null), Row(Num(2), Str(<<"b", "o", "b">>)), Row(Null, Str(<<"b", "o", "b">>))>>)
R_MANY ==
  Arr([i \in 1..(MaxDisplayRows + 1) |->
         Row(Num(i), Str([j \in 1..(IF i = 1 THEN MaxCellLength + 1 ELSE 1) |-> "x"]))])
R_EMPTY == Arr(<< >>)
R_SCALAR == Obj(<<"count">>, <<Num(3)>>)
R_NULL_ROW == Arr(<<Null>>)
R_LATER_NULL_ROW == Arr(<<Row(Num(1), Str(<<"a">>)), Undefined>>)

\* Values db.raw returns for a generated statement.
DbResults ==
  {R_ONE, R_NULLS, R_MANY, R_EMPTY, R_SCALAR, R_NULL_ROW, R_LATER_NULL_ROW,
   Undefined}

GenOutcomes ==
  {Returned(Str(g)) : g \in GeneratedTexts} \cup {Thrown(e) : e \in ThrownValues}
DbOutcomes ==
  {Returned(r) : r \in DbResults} \cup {Thrown(e) : e \in ThrownValues}
\* The schema rows are not interpreted by the pipeline.
SchemaOutcomes ==
  {Returned(Arr(<< >>))} \cup {Thrown(e) : e \in ThrownValues}
TierOutcomes(pool) ==
  {Returned(Handle(pool))} \cup {Thrown(e) : e \in ThrownValues}

FullConfig ==
  [k |-> "object", user |-> Str(<<"u">>), password |-> Str(<<"p">>),
   host |-> Str(<<"h">>), database |-> Str(<<"d">>), filename |-> Str(<<"f.db">>)]

\* this.initParams as the constructor stores it.
InitParamChoices ==
  {[k |-> "object", databaseUrl |-> Str(<<"<connection string>">>),
    dbConfig |-> Undefined],
   [k |-> "object", databaseUrl |-> Undefined, dbConfig |-> FullConfig],
   [k |-> "object", databaseUrl |-> Undefined,
    dbConfig |-> [FullConfig EXCEPT !.password = Undefined]],
   [k |-> "object", databaseUrl |-> Undefined, dbConfig |-> Undefined]}

(***************************************************************************)
(* State.                                                                  *)
(***************************************************************************)
VARIABLES
  db,          \* SQLAssistant.db: Null or a handle
  initParams,  \* SQLAssistant.initParams: Undefined once initialized
  queryChain,  \* SQLAssistant.queryChain: Null or the chain
  dbType,      \* SQLAssistant.dbType
  destroyed,   \* number of destroy() calls made on handles
  now,         \* the clock read by Date.now()
  nCalls,      \* calls of the public entry points so far
  pc,          \* position of the running call
  entry,       \* the public entry point that was called
  question,    \* its argument
  stage,       \* execute: the stage being run
  startTime,   \* execute: const startTime
  stepStart,   \* executeStep: const startTime
  steps,       \* execute: const steps
  opOutcome,   \* executeStep: what `await operation(input)` gave
  thrownError, \* execute: the error its catch block receives
  sqlQuery,    \* query: const sqlQuery
  qres,        \* what the last query() of the running call returned
  calls,       \* the calls the running call has made, in order, with their outcomes
  result       \* what the call returned (Returned) or threw (Thrown)

\* A createSafeConnection call of a ConnectionManager.
VARIABLES
  cmPc,               \* position of the call
  cmDbType,           \* ConnectionManager.dbType
  cmConnectionString, \* the argument of the call
  cmDiagnostics,      \* createSafeConnection: const diagnostics
  cmAttempts,         \* the tiers tried so far, with their outcomes
  cmHandles,          \* handles built by knex(config) during the call
  cmResult            \* what the call returned (Returned) or threw (Thrown)

\* A pure function of the package applied to an argument.
VARIABLES
  input,              \* the argument
  output              \* the value returned, once the function was applied

\* Calls of the public methods that run concurrently on one instance.
VARIABLES
  runs,               \* the calls started so far, each with its position
  events              \* what the calls did to connections, in order

inst == <<db, initParams, queryChain, dbType, destroyed>>
exec == <<stage, startTime, stepStart, steps, opOutcome, thrownError>>
cm == <<cmPc, cmDbType, cmConnectionString, cmDiagnostics, cmAttempts,
        cmHandles, cmResult>>
fn == <<input, output>>
conc == <<runs, events>>
aux == <<cm, fn, conc>>
assistant == <<db, initParams, queryChain, dbType, destroyed, now, nCalls, pc,
               entry, question, stage, startTime, stepStart, steps, opOutcome,
               thrownError, sqlQuery, qres, calls, result>>
vars == <<assistant, aux>>

None == [k |-> "none"]

\* No createSafeConnection call is running.
CmIdle ==
  /\ cmPc = "idle"
  /\ cmDbType = "none"
  /\ cmConnectionString = << >>
  /\ cmDiagnostics = << >>
  /\ cmAttempts = << >>
  /\ cmHandles = 0
  /\ cmResult = None

\* No pure function is being applied.
FnIdle ==
  /\ input = None
  /\ output = None

\* No concurrent call was started.
NoRuns ==
  /\ runs = << >>
  /\ events = << >>
TheChain == [k |-> "QueryChain"]

\* getSchemaQuery(): the introspection statement of the dialect
SchemaQuery == <<"<schema query>">>

\* The assistant after construction.
AssistantInit ==
  /\ db = Null
  /\ initParams \in InitParamChoices
  /\ queryChain = Null
  /\ dbType \in ConstructedTypes
  /\ destroyed = 0
  /\ now = 0
  /\ nCalls = 0
  /\ pc = "idle"
  /\ entry = "none"
  /\ question = << >>
  /\ stage = "none"
  /\ startTime = 0
  /\ stepStart = 0
  /\ steps = << >>
  /\ opOutcome = None
  /\ thrownError = None
  /\ sqlQuery = << >>
  /\ qres = None
  /\ calls = << >>
  /\ result = None

Init ==
  /\ AssistantInit
  /\ CmIdle
  /\ FnIdle
  /\ NoRuns

\* Date.now(): the clock never runs backwards.
ClockReads == now..MaxClock

(***************************************************************************)
(* The public entry points are called.                                     *)
(***************************************************************************)
BeginCall(e, q) ==
  /\ UNCHANGED aux
  /\ pc = "idle"
  /\ nCalls < MaxCalls
  /\ nCalls' = nCalls + 1
  /\ entry' = e
  /\ question' = q
  /\ calls' = << >>
  /\ result' = None
  /\ sqlQuery' = << >>
  /\ qres' = None
  /\ stage' = "none"
  /\ startTime' = 0
  /\ stepStart' = 0
  /\ steps' = << >>
  /\ opOutcome' = None
  /\ thrownError' = None
  /\ UNCHANGED <<inst, now>>

\* A guard that sends every call through initialize.
NeedsInitialize_Always(params) == TRUE

\* `if (this.initParams)` of processQuery and query
NeedsInitialize(params) == Truthy(params)

\* processQuery(input), up to its first await
CallProcessQuery ==
  \E q \in Questions :
    /\ BeginCall("processQuery", q)
    /\ pc' = IF NeedsInitialize(initParams) THEN "initialize" ELSE "pq_chain"

\* query(question), up to its first await
CallQuery ==
  \E q \in Questions :
    /\ BeginCall("query", q)
    /\ pc' = "q_enter"

\* initialize(), up to its first await
CallInitialize ==
  /\ BeginCall("initialize", << >>)
  /\ pc' = "initialize"

\* disconnect()
CallDisconnect ==
  /\ BeginCall("disconnect", << >>)
  /\ pc' = "disconnect"

(***************************************************************************)
(* SQLAssistant.query                                                      *)
(***************************************************************************)
\* The QueryResult of query's catch block.
QueryFailure(e) ==
  [success |-> FALSE, data |-> Undefined, query |-> Undefined,
   error |-> Str(IF e.k = "Error" THEN e.message
                                  ELSE <<"Unknown error occurred">>)]

QuerySuccess(data, q) ==
  [success |-> TRUE, data |-> data, query |-> Str(q), error |-> Undefined]

\* The operation without the `|| "SQL generation failed"` fallback.
SqlGenerationOperation_NoFallback(qr) ==
  IF ~qr.success
    THEN Thrown(Err(ToStringValue(qr.error)))
    ELSE Returned(Obj(<<"sqlQuery", "data">>, <<qr.query, qr.data>>))

\* The operation of the sql_generation step, on the QueryResult it awaited.
SqlGenerationOperation(qr) ==
  IF ~qr.success
    THEN Thrown(Err(ToStringValue(OrElse(qr.error, Str(<<"SQL generation failed">>)))))
    ELSE Returned(Obj(<<"sqlQuery", "data">>, <<qr.query, qr.data>>))

\* query returns qr: to the caller, or to the sql_generation step.
QueryDone(qr) ==
  /\ qres' = qr
  /\ IF entry = "query"
       THEN /\ result' = Returned(qr)
            /\ pc' = "done"
            /\ opOutcome' = opOutcome
       ELSE /\ opOutcome' = SqlGenerationOperation(qr)
            /\ pc' = "step_end"
            /\ result' = result

\* query: `if (this.initParams) await this.initialize()`
QueryEnter ==
  /\ UNCHANGED aux
  /\ pc = "q_enter"
  /\ calls' = Append(calls, [op |-> "query", arg |-> question, ret |-> None])
  /\ pc' = IF NeedsInitialize(initParams) THEN "initialize" ELSE "q_schema"
  /\ UNCHANGED <<inst, now, nCalls, entry, question, exec, sqlQuery, qres, result>>

\* query: the db check and `await this.getSchemaInfo()`
QuerySchema ==
  /\ UNCHANGED aux
  /\ pc = "q_schema"
  /\ IF ~Truthy(db)
       THEN /\ QueryDone(QueryFailure(Err(<<"Database not initialized">>)))
            /\ UNCHANGED <<now, calls>>
       ELSE \E o \in SchemaOutcomes, t \in ClockReads :
              /\ now' = t
              /\ calls' = Append(calls, [op |-> "raw", arg |-> SchemaQuery, ret |-> o])
              /\ IF o.thrown
                   THEN QueryDone(QueryFailure(Err(<<"Failed to fetch database schema">>)))
                   ELSE /\ pc' = "q_generate"
                        /\ UNCHANGED <<qres, opOutcome, result>>
  /\ UNCHANGED <<inst, nCalls, entry, question, stage, startTime, stepStart,
                 steps, thrownError, sqlQuery>>

\* query: `await this.generateSQLQuery(question, schemaString)`
QueryGenerate ==
  /\ UNCHANGED aux
  /\ pc = "q_generate"
  /\ \E o \in GenOutcomes, t \in ClockReads :
       /\ now' = t
       /\ calls' = Append(calls, [op |-> "generateContent", arg |-> question, ret |-> o])
       /\ LET r == IF o.thrown THEN o ELSE generateSQLQuery(dbType, o.value.v)
          IN IF r.thrown
               THEN /\ QueryDone(QueryFailure(r.value))
                    /\ UNCHANGED sqlQuery
               ELSE /\ sqlQuery' = r.value.v
                    /\ pc' = "q_execute"
                    /\ UNCHANGED <<qres, opOutcome, result>>
  /\ UNCHANGED <<inst, nCalls, entry, question, stage, startTime, stepStart,
                 steps, thrownError>>

\* query: `await this.db.raw(sqlQuery)` and the return
QueryExecute ==
  /\ UNCHANGED aux
  /\ pc = "q_execute"
  /\ IF ~Truthy(db)
       THEN /\ QueryDone(QueryFailure(Err(<<"Cannot read properties of null (reading 'raw')">>)))
            /\ UNCHANGED <<now, calls>>
       ELSE \E o \in DbOutcomes, t \in ClockReads :
              /\ now' = t
              /\ calls' = Append(calls, [op |-> "raw", arg |-> sqlQuery, ret |-> o])
              /\ IF o.thrown
                   THEN QueryDone(QueryFailure(o.value))
                   ELSE QueryDone(QuerySuccess(o.value, sqlQuery))
  /\ UNCHANGED <<inst, nCalls, entry, question, stage, startTime, stepStart,
                 steps, thrownError, sqlQuery>>

(***************************************************************************)
(* SQLAssistant.initialize and disconnect                                  *)
(***************************************************************************)
\* initialize(), called explicitly or by query or processQuery
Initialize ==
  /\ UNCHANGED aux
  /\ pc = "initialize"
  /\ \E o1 \in TierOutcomes("standard"), o2 \in TierOutcomes("restricted"),
        o3 \in TierOutcomes("restricted"), t \in ClockReads :
       LET r == initialize(initParams, dbType, o1, o2, o3)
       IN /\ now' = t
          /\ IF r.thrown
               THEN /\ UNCHANGED <<db, initParams, queryChain>>
                    /\ IF entry = "query"
                         THEN QueryDone(QueryFailure(r.value))
                         ELSE /\ result' = r
                              /\ pc' = "done"
                              /\ UNCHANGED <<qres, opOutcome>>
               ELSE /\ db' = r.value
                    /\ queryChain' = TheChain
                    /\ initParams' = Undefined
                    /\ UNCHANGED <<qres, opOutcome>>
                    /\ CASE entry = "query" -> pc' = "q_schema" /\ result' = result
                         [] entry = "processQuery" -> pc' = "pq_chain" /\ result' = result
                         [] OTHER -> pc' = "done" /\ result' = Returned(Undefined)
  /\ UNCHANGED <<dbType, destroyed, nCalls, entry, question, stage, startTime,
                 stepStart, steps, thrownError, sqlQuery, calls>>

\* disconnect()
Disconnect ==
  /\ UNCHANGED aux
  /\ pc = "disconnect"
  /\ IF Truthy(db)
       THEN \E o \in {Returned(Undefined)} \cup {Thrown(e) : e \in ThrownValues},
               t \in ClockReads :
              /\ now' = t
              /\ destroyed' = destroyed + 1
              /\ calls' = Append(calls, [op |-> "destroy", arg |-> << >>, ret |-> o])
              /\ db' = IF o.thrown THEN db ELSE Null
              /\ result' = o
       ELSE /\ result' = Returned(Undefined)
            /\ UNCHANGED <<db, destroyed, now, calls>>
  /\ pc' = "done"
  /\ UNCHANGED <<initParams, queryChain, dbType, nCalls, entry, question, exec,
                 sqlQuery, qres>>

(***************************************************************************)
(* SQLAssistant.processQuery and QueryChain.execute                        *)
(***************************************************************************)
Stages == <<"validation", "schema_analysis", "sql_generation", "response_formatting">>

\* processQuery: the queryChain check, then execute up to its first step
EnterExecute ==
  /\ UNCHANGED aux
  /\ pc = "pq_chain"
  /\ IF ~Truthy(queryChain)
       THEN /\ result' = Thrown(Err(<<"Query chain not initialized">>))
            /\ pc' = "done"
            /\ UNCHANGED <<now, exec>>
       ELSE \E t \in ClockReads :
              /\ now' = t
              /\ startTime' = t
              /\ steps' = << >>
              /\ stage' = "validation"
              /\ pc' = "step_begin"
              /\ UNCHANGED <<result, stepStart, opOutcome, thrownError>>
  /\ UNCHANGED <<inst, nCalls, entry, question, sqlQuery, qres, calls>>

\* The input snapshot executeStep records for a stage.
StepInput(name) ==
  CASE name = "validation" -> Obj(<<"question">>, <<Str(question)>>)
    [] name = "schema_analysis" -> Obj(<<"question">>, <<Str(question)>>)
    [] name = "sql_generation" ->
         Obj(<<"question", "schema">>, <<Str(question), steps[2].output>>)
    [] name = "response_formatting" ->
         Obj(<<"question", "sqlQuery", "data", "dbType">>,
             <<Str(question), GetProp(steps[3].output, "sqlQuery"),
               GetProp(steps[3].output, "data"), Str(<<dbType>>)>>)

\* The operations of the stages that await no collaborator.
StageOperation(name) ==
  CASE name = "validation" -> validateInput(question)
    [] name = "schema_analysis" -> Returned(Obj(<<"schemaAvailable">>, <<Bool(TRUE)>>))
    [] name = "response_formatting" ->
         formatResponse(question,
                        ToStringValue(GetProp(steps[3].output, "sqlQuery")),
                        GetProp(steps[3].output, "data"), dbType)

\* executeStep: `const startTime = Date.now()` and the call of the operation
BeginStep ==
  /\ UNCHANGED aux
  /\ pc = "step_begin"
  /\ \E t \in ClockReads :
       /\ now' = t
       /\ stepStart' = t
  /\ calls' = Append(calls, [op |-> "executeStep", arg |-> <<stage>>, ret |-> None])
  /\ IF stage = "sql_generation"
       THEN /\ pc' = "q_enter"
            /\ UNCHANGED opOutcome
       ELSE /\ opOutcome' = StageOperation(stage)
            /\ pc' = "step_end"
  /\ UNCHANGED <<inst, nCalls, entry, question, stage, startTime, steps,
                 thrownError, sqlQuery, qres, result>>

\* A duration measured from the start of execute.
StepDuration_FromExecuteStart(t) == t - startTime

\* The duration executeStep records.
StepDuration(t) == t - stepStart

\* The QueryStep executeStep returns when the operation settled at time t.
MakeStep(name, outcome, t) ==
  IF outcome.thrown
    THEN [name |-> name, input |-> StepInput(name), output |-> Null,
          duration |-> StepDuration(t), success |-> FALSE,
          error |-> Str(ErrorMessageOf(outcome.value))]
    ELSE [name |-> name, input |-> StepInput(name), output |-> outcome.value,
          duration |-> StepDuration(t), success |-> TRUE, error |-> Undefined]

\* An execute that checks only the validation step.
StageIsRequired_OnlyValidation(name) == name = "validation"

\* Whether execute throws after a step of this stage failed.
StageIsRequired(name) == name \in {"validation", "sql_generation"}

\* The message execute throws after a required stage failed.
FailureMessage(step) ==
  ToStringValue(OrElse(step.error,
    Str(IF step.name = "validation" THEN <<"Validation failed">>
                                    ELSE <<"SQL generation failed">>)))

\* A chain that runs the sql_generation stage again after it succeeded.
NextStage_GenerationTwice(name) ==
  CASE name = "validation" -> "schema_analysis"
    [] name = "schema_analysis" -> "sql_generation"
    [] name = "sql_generation" -> "sql_generation"
    [] OTHER -> "none"

NextStage(name) ==
  CASE name = "validation" -> "schema_analysis"
    [] name = "schema_analysis" -> "sql_generation"
    [] name = "sql_generation" -> "response_formatting"
    [] OTHER -> "none"

\* A push that keeps only the steps that succeeded.
PushStep_OnlySuccessful(list, step) ==
  IF step.success THEN Append(list, step) ELSE list

\* steps.push(step)
PushStep(list, step) == Append(list, step)

\* executeStep returns; execute pushes the step and goes on, throws or ends
EndStep ==
  /\ UNCHANGED aux
  /\ pc = "step_end"
  /\ \E t \in ClockReads :
       LET step == MakeStep(stage, opOutcome, t)
       IN /\ now' = t
          /\ steps' = PushStep(steps, step)
          /\ IF ~step.success /\ StageIsRequired(stage)
               THEN /\ thrownError' = Err(FailureMessage(step))
                    /\ pc' = "catch"
                    /\ UNCHANGED stage
               ELSE /\ UNCHANGED thrownError
                    /\ stage' = NextStage(stage)
                    /\ pc' = IF stage = "response_formatting" THEN "finish"
                                                             ELSE "step_begin"
  /\ opOutcome' = None
  /\ UNCHANGED <<inst, nCalls, entry, question, startTime, stepStart, sqlQuery,
                 qres, calls, result>>

\* The synthetic step of execute's catch block.
ErrorHandlingStep(errorMessage) ==
  [name |-> "error_handling",
   input |-> Obj(<<"error">>, <<Str(errorMessage)>>), output |-> Null,
   duration |-> 0, success |-> FALSE, error |-> Str(errorMessage)]

FailureResult(errorMessage, executionTime) ==
  [success |-> FALSE, question |-> question, sqlQuery |-> Str(<< >>),
   rawData |-> Null, formattedResponse |-> Str(<< >>),
   executionTime |-> executionTime,
   steps |-> PushStep(steps, ErrorHandlingStep(errorMessage)),
   error |-> Str(errorMessage)]

SuccessResult(executionTime) ==
  [success |-> TRUE, question |-> question,
   sqlQuery |-> GetProp(steps[3].output, "sqlQuery"),
   rawData |-> GetProp(steps[3].output, "data"),
   formattedResponse |-> steps[4].output,
   executionTime |-> executionTime, steps |-> steps, error |-> Undefined]

\* execute: the catch block
Catch ==
  /\ UNCHANGED aux
  /\ pc = "catch"
  /\ \E t \in ClockReads :
       /\ now' = t
       /\ result' = Returned(FailureResult(ErrorMessageOf(thrownError), t - startTime))
       /\ steps' = PushStep(steps, ErrorHandlingStep(ErrorMessageOf(thrownError)))
  /\ pc' = "done"
  /\ UNCHANGED <<inst, nCalls, entry, question, stage, startTime, stepStart,
                 opOutcome, thrownError, sqlQuery, qres, calls>>

\* execute: the return after the response_formatting step
Finish ==
  /\ UNCHANGED aux
  /\ pc = "finish"
  /\ \E t \in ClockReads :
       /\ now' = t
       /\ result' = Returned(SuccessResult(t - startTime))
  /\ pc' = "done"
  /\ UNCHANGED <<inst, nCalls, entry, question, exec, sqlQuery, qres, calls>>

\* The caller receives the result; the locals of the call are gone and the
\* instance is idle again.
Return ==
  /\ UNCHANGED aux
  /\ pc = "done"
  /\ pc' = "idle"
  /\ entry' = "none"
  /\ question' = << >>
  /\ calls' = << >>
  /\ result' = None
  /\ sqlQuery' = << >>
  /\ qres' = None
  /\ stage' = "none"
  /\ startTime' = 0
  /\ stepStart' = 0
  /\ steps' = << >>
  /\ opOutcome' = None
  /\ thrownError' = None
  /\ UNCHANGED <<inst, now, nCalls>>

Next ==
  \/ CallProcessQuery
  \/ CallQuery
  \/ CallInitialize
  \/ CallDisconnect
  \/ Initialize
  \/ Disconnect
  \/ EnterExecute
  \/ BeginStep
  \/ QueryEnter
  \/ QuerySchema
  \/ QueryGenerate
  \/ QueryExecute
  \/ EndStep
  \/ Catch
  \/ Finish
  \/ Return

Spec == Init /\ [][Next]_vars

(***************************************************************************)
(* Vocabulary of the properties.                                           *)
(***************************************************************************)
\* The running call is a processQuery whose execute returned a ChainResult.
ChainReturned ==
  /\ pc = "done"
  /\ entry = "processQuery"
  /\ result # None
  /\ ~result.thrown

\* That ChainResult.
R == result.value

StepNames(list) == [i \in 1..Len(list) |-> list[i].name]

\* The entries of a steps list other than a trailing error_handling entry.
StageEntries(list) ==
  IF Len(list) > 0 /\ list[Len(list)].name = "error_handling"
    THEN SubSeq(list, 1, Len(list) - 1)
    ELSE list

IsPrefixOfStages(names) ==
  /\ Len(names) <= Len(Stages)
  /\ names = SubSeq(Stages, 1, Len(names))

\* Positions in the call log.
GenCalls == {i \in 1..Len(calls) : calls[i].op = "generateContent"}
QueryCalls == {i \in 1..Len(calls) : calls[i].op = "query"}
SchemaCalls == {i \in 1..Len(calls) : calls[i].op = "raw" /\ calls[i].arg = SchemaQuery}
StatementCalls == {i \in 1..Len(calls) : calls[i].op = "raw" /\ calls[i].arg # SchemaQuery}
\* The stages executeStep was called for, in call order.
RECURSIVE AttemptedIn(_)
AttemptedIn(log) ==
  IF Len(log) = 0 THEN << >>
  ELSE (IF log[1].op = "executeStep" THEN log[1].arg ELSE << >>)
         \o AttemptedIn(Tail(log))

\* Begins with SELECT, in any letter case.
StartsWithSelectAnyCase(text) ==
  /\ Len(text) >= 6
  /\ text[1] \in {"s", "S"}
  /\ text[2] \in {"e", "E"}
  /\ text[3] \in {"l", "L"}
  /\ text[4] \in {"e", "E"}
  /\ text[5] \in {"c", "C"}
  /\ text[6] \in {"t", "T"}

\* The questions of the model that fail question-level validation: empty,
\* white space only, longer than 1000 characters, matching the denylist.
DenylistedQuestions == {Q_DROP, Q_DELETE, Q_UPDATE}
InvalidQuestions == {Q_EMPTY, Q_BLANK, Q_TOO_LONG} \cup DenylistedQuestions

\* The text holds a write or DDL statement.
ContainsWord(text, word) == Includes(ToLowerCase(text), word)
HoldsWriteStatement(text) ==
  \/ ContainsWord(text, <<"d", "r", "o", "p", " ", "t", "a", "b", "l", "e">>)
  \/ ContainsWord(text, <<"d", "e", "l", "e", "t", "e", " ", "f", "r", "o", "m">>)
  \/ ContainsWord(text, <<"i", "n", "s", "e", "r", "t", " ", "i", "n", "t", "o">>)

RECURSIVE SumDurations(_)
SumDurations(list) ==
  IF Len(list) = 0 THEN 0 ELSE list[1].duration + SumDurations(Tail(list))

\* The lines of a text (the "\n" that ends each is dropped).
RECURSIVE LinesOf(_, _)
LinesOf(text, current) ==
  IF Len(text) = 0 THEN (IF Len(current) = 0 THEN << >> ELSE <<current>>)
  ELSE IF text[1] = "\n" THEN <<current>> \o LinesOf(Tail(text), << >>)
  ELSE LinesOf(Tail(text), Append(current, text[1]))

IsTableRow(line) ==
  /\ Len(line) >= 3
  /\ line[1] = "| "
  /\ line[Len(line)] = " |"

IsSeparatorRow(line) ==
  /\ IsTableRow(line)
  /\ \A j \in 2..(Len(line) - 1) : line[j] \in {"-", " | "}
  /\ \E j \in 2..(Len(line) - 1) : line[j] = "-"

\* A header row, a separator row and at least one data row.
ContainsMarkdownTable(text) ==
  LET lines == LinesOf(text, << >>)
  IN \E i \in 1..(Len(lines) - 2) :
       /\ IsTableRow(lines[i])
       /\ IsSeparatorRow(lines[i + 1])
       /\ IsTableRow(lines[i + 2])

IsNonEmptyRowList(data) ==
  /\ data.k = "array"
  /\ Len(data.v) > 0
  /\ \A i \in 1..Len(data.v) : data.v[i].k = "object"

(***************************************************************************)
(* C1.  In query, the generated text, trimmed and stripped of code-fence   *)
(* markers, is passed to the handle only if it begins with SELECT in any   *)
(* letter case.  Otherwise no statement is executed, query returns         *)
(* success=false with error "Only SELECT queries are allowed", and a       *)
(* processQuery run returns success=false with sqlQuery "".                *)
(***************************************************************************)
C1_OnlySelectIsExecuted ==
  /\ \A j \in StatementCalls :
       \E i \in GenCalls :
         /\ i < j
         /\ ~calls[i].ret.thrown
         /\ calls[j].arg = CleanQuery(calls[i].ret.value.v)
         /\ StartsWithSelectAnyCase(calls[j].arg)
  /\ \A i \in GenCalls :
       (/\ ~calls[i].ret.thrown
        /\ ~StartsWithSelectAnyCase(CleanQuery(calls[i].ret.value.v)))
       => /\ StatementCalls = {}
          /\ qres # None
          /\ qres.success = FALSE
          /\ qres.error = Str(<<"Only SELECT queries are allowed">>)
          /\ qres.query = Undefined
          /\ (pc = "done" /\ entry = "query" => result = Returned(qres))
          /\ (ChainReturned => R.success = FALSE /\ R.sqlQuery = Str(<< >>))

\* Scenario E: the service answers DELETE FROM users to a processQuery.
C1_Witness ==
  /\ ChainReturned
  /\ \E i \in GenCalls : calls[i].ret = Returned(Str(G_DELETE))
  /\ StatementCalls = {}
  /\ R.success = FALSE
  /\ R.sqlQuery = Str(<< >>)

(***************************************************************************)
(* C2.  Only read queries are executed: a generated text that holds a      *)
(* write or DDL statement anywhere, also after a leading SELECT, is never  *)
(* passed to the handle.                                                   *)
(***************************************************************************)
C2_NoWriteStatementExecuted ==
  \A i \in GenCalls :
    (~calls[i].ret.thrown /\ HoldsWriteStatement(calls[i].ret.value.v))
    => \A j \in StatementCalls : j < i

(***************************************************************************)
(* C3.  For a question that fails validation, execute returns              *)
(* success=false with steps [validation (failed), error_handling]; no      *)
(* other stage is attempted and neither query nor the generation service   *)
(* is called.                                                              *)
(***************************************************************************)
C3_InvalidQuestionStopsAtValidation ==
  (entry = "processQuery" /\ question \in InvalidQuestions)
  => /\ QueryCalls = {}
     /\ GenCalls = {}
     /\ StatementCalls = {}
     /\ \A i \in 1..Len(AttemptedIn(calls)) : AttemptedIn(calls)[i] = "validation"
     /\ ChainReturned
          => /\ R.success = FALSE
             /\ StepNames(R.steps) = <<"validation", "error_handling">>
             /\ R.steps[1].success = FALSE
             /\ R.steps[2].success = FALSE

\* Scenario B, with a question longer than 1000 characters.
C3_Witness ==
  /\ ChainReturned
  /\ question = Q_TOO_LONG
  /\ Truthy(db)
  /\ StepNames(R.steps) = <<"validation", "error_handling">>

(***************************************************************************)
(* C4.  As claimed: through query and through processQuery, no             *)
(* generation-service call is made for a question matching the denylist.   *)
(***************************************************************************)
C4_NoGenerationForDenylistedQuestion ==
  (entry \in {"query", "processQuery"} /\ question \in DenylistedQuestions)
  => GenCalls = {}

(***************************************************************************)
(* C4, amended.  Through processQuery, no generation-service call is made  *)
(* for a question matching the denylist and the run fails at validation.   *)
(* query validates no question: once the schema was read it calls the      *)
(* generation service, whatever the question.                              *)
(***************************************************************************)
C4_ProcessQueryRejectsDenylistedQuestion ==
  /\ (entry = "processQuery" /\ question \in DenylistedQuestions)
     => /\ GenCalls = {}
        /\ ChainReturned
             => /\ R.success = FALSE
                /\ R.steps[1].name = "validation"
                /\ R.steps[1].success = FALSE
  /\ (/\ entry = "query"
      /\ pc # "q_generate"
      /\ \E i \in SchemaCalls : ~calls[i].ret.thrown)
     => GenCalls # {}

C4_Witness ==
  /\ ChainReturned
  /\ question = Q_DELETE
  /\ Truthy(db)
  /\ GenCalls = {}
  /\ R.success = FALSE

(***************************************************************************)
(* C5.  The steps list of an execute run is non-empty and starts with      *)
(* validation; its entries other than a trailing error_handling are a      *)
(* prefix of [validation, schema_analysis, sql_generation,                 *)
(* response_formatting], one entry per stage attempted, failed or not, and *)
(* none for a stage that was not reached.                                  *)
(***************************************************************************)
C5_StepsAreTheAttemptedStages ==
  entry = "processQuery"
  => LET attempted == AttemptedIn(calls)
         ended == IF pc \in {"step_end", "q_enter", "q_schema", "q_generate",
                             "q_execute", "initialize"}
                       /\ Len(attempted) > 0
                    THEN SubSeq(attempted, 1, Len(attempted) - 1)
                    ELSE attempted
     IN /\ IsPrefixOfStages(attempted)
        /\ StepNames(StageEntries(steps)) = ended
        /\ \A i \in 1..(Len(steps) - 1) : steps[i].name # "error_handling"
        /\ ChainReturned
             => /\ R.steps = steps
                /\ Len(R.steps) >= 1
                /\ R.steps[1].name = "validation"
                /\ StepNames(StageEntries(R.steps)) = attempted

\* A run that failed at sql_generation: three stage entries, two of them
\* successful, and the synthetic entry.
C5_Witness ==
  /\ ChainReturned
  /\ StepNames(R.steps) =
       <<"validation", "schema_analysis", "sql_generation", "error_handling">>
  /\ R.steps[3].success = FALSE

\* The last entry of a non-empty list.
LastOf(list) == list[Len(list)]

FailedSteps(list) == {i \in 1..Len(list) : ~list[i].success}

(***************************************************************************)
(* C6.  A ChainResult with success=false ends with an error_handling step  *)
(* with success=false, duration 0 and the error of the ChainResult, which  *)
(* is the error of the failed validation or sql_generation step; its       *)
(* sqlQuery is "", rawData null, formattedResponse "".  A ChainResult with *)
(* success=true has no error_handling step and no error.                   *)
(***************************************************************************)
C6_FailureResultShape ==
  ChainReturned
  => /\ R.success = FALSE
          => /\ Len(R.steps) >= 2
             /\ LastOf(R.steps).name = "error_handling"
             /\ LastOf(R.steps).success = FALSE
             /\ LastOf(R.steps).duration = 0
             /\ LastOf(R.steps).error = R.error
             /\ R.error.k = "string"
             /\ LET failed == R.steps[Len(R.steps) - 1]
                IN /\ failed.name \in {"validation", "sql_generation"}
                   /\ failed.success = FALSE
                   /\ failed.error = R.error
             /\ R.sqlQuery = Str(<< >>)
             /\ R.rawData = Null
             /\ R.formattedResponse = Str(<< >>)
     /\ R.success = TRUE
          => /\ \A i \in 1..Len(R.steps) : R.steps[i].name # "error_handling"
             /\ R.error = Undefined

\* The driver rejects the statement with an Error whose message is empty.
C6_Witness ==
  /\ ChainReturned
  /\ R.success = FALSE
  /\ \E j \in StatementCalls : calls[j].ret = Thrown(Err(<< >>))
  /\ R.error = Str(<<"SQL generation failed">>)
  /\ R.steps[3].error = R.error

(***************************************************************************)
(* C7.  ChainResult.success is true exactly when the validation step and   *)
(* the sql_generation step both succeeded; a failed response_formatting    *)
(* step is in steps and leaves success true; a failed sql_generation step  *)
(* is never followed by a response_formatting step.                        *)
(***************************************************************************)
StepSucceeded(list, name) ==
  \E i \in 1..Len(list) : list[i].name = name /\ list[i].success

C7_SuccessFollowsRequiredStages ==
  /\ ChainReturned
     => /\ R.success
          <=> (StepSucceeded(R.steps, "validation")
               /\ StepSucceeded(R.steps, "sql_generation"))
        /\ \A i \in 1..Len(R.steps) :
             (R.steps[i].name = "response_formatting" /\ ~R.steps[i].success)
             => R.success = TRUE
  /\ entry = "processQuery"
     => \A i \in 1..Len(steps) :
          (steps[i].name = "sql_generation" /\ ~steps[i].success)
          => /\ \A j \in 1..Len(steps) : steps[j].name # "response_formatting"
             /\ "response_formatting" \notin
                  {AttemptedIn(calls)[j] : j \in 1..Len(AttemptedIn(calls))}

\* The formatting step failed on a result whose first row is null.
C7_Witness ==
  /\ ChainReturned
  /\ R.success = TRUE
  /\ Len(R.steps) = 4
  /\ R.steps[4].name = "response_formatting"
  /\ R.steps[4].success = FALSE
  /\ R.rawData = R_NULL_ROW

(***************************************************************************)
(* C8.  No stage failure is swallowed: whenever an attempted stage has     *)
(* success=false, the ChainResult carries a top-level error and ends with  *)
(* a failed error_handling step.                                           *)
(***************************************************************************)
C8_NoStageFailureSwallowed ==
  ChainReturned
  => (FailedSteps(StageEntries(R.steps)) # {}
      => /\ R.error # Undefined
         /\ LastOf(R.steps).name = "error_handling"
         /\ LastOf(R.steps).success = FALSE)

(***************************************************************************)
(* C9.  With a clock that never runs backwards, every step duration is     *)
(* >= 0, executionTime is >= 0 and is the time from the start of execute   *)
(* to its return, and the step durations sum to at most executionTime.     *)
(***************************************************************************)
C9_DurationsWithinExecutionTime ==
  /\ entry = "processQuery"
     => \A i \in 1..Len(steps) : steps[i].duration >= 0
  /\ ChainReturned
     => /\ \A i \in 1..Len(R.steps) : R.steps[i].duration >= 0
        /\ R.executionTime >= 0
        /\ R.executionTime = now - startTime
        /\ SumDurations(R.steps) <= R.executionTime

\* Time passed inside two steps and between steps.
C9_Witness ==
  /\ ChainReturned
  /\ Len(R.steps) = 4
  /\ R.steps[1].duration = 1
  /\ R.steps[3].duration = 1
  /\ SumDurations(R.steps) = R.executionTime

(***************************************************************************)
(* C10.  When the question passes validation, the service returns a text   *)
(* that begins with SELECT and the handle executes it, processQuery        *)
(* returns success=true with the four stage steps, sqlQuery the cleaned    *)
(* text, rawData the result of the handle and, for a non-empty row list,   *)
(* a formattedResponse that contains a markdown table.                     *)
(***************************************************************************)
C10_SuccessfulRun ==
  ChainReturned
  => \A i \in GenCalls, j \in StatementCalls :
       (/\ ~calls[i].ret.thrown
        /\ StartsWithSelectAnyCase(CleanQuery(calls[i].ret.value.v))
        /\ ~calls[j].ret.thrown)
       => /\ R.success = TRUE
          /\ StepNames(R.steps) = Stages
          /\ \A n \in 1..3 : R.steps[n].success
          /\ R.question = question
          /\ R.sqlQuery = Str(CleanQuery(calls[i].ret.value.v))
          /\ R.rawData = calls[j].ret.value
          /\ IsNonEmptyRowList(R.rawData)
               => /\ R.steps[4].success
                  /\ R.formattedResponse.k = "string"
                  /\ ContainsMarkdownTable(R.formattedResponse.v)

\* Scenario A.
C10_Witness ==
  /\ ChainReturned
  /\ dbType = "sqlite"
  /\ question = Q_SALAIRE
  /\ R.success = TRUE
  /\ R.sqlQuery = Str(G_USERS)
  /\ R.rawData = R_ONE
  /\ ContainsMarkdownTable(R.formattedResponse.v)

(***************************************************************************)
(* ConnectionManager.createSafeConnection, step by step.                   *)
(***************************************************************************)
\* DB_CONFIGS[dbType].driver
DB_DRIVERS ==
  [sqlite |-> "sqlite", postgresql |-> "pg", mysql |-> "mysql2", mariadb |-> "mysql2"]

\* getDatabaseConfig: the entry of the dialect, or the throw for a dialect
\* the table does not hold.
getDatabaseConfig(type) ==
  IF type \in DOMAIN DB_DRIVERS
    THEN Returned([driver |-> DB_DRIVERS[type]])
    ELSE Thrown(Err(<<"Unsupported database type: ", type>>))

SQLITE_PREFIX == <<"s", "q", "l", "i", "t", "e", ":", "/", "/", "/">>
SQLITE_MEMORY == <<"s", "q", "l", "i", "t", "e", ":", "/", "/", "/", ":", "m", "e", "m", "o", "r", "y", ":">>
MEMORY == <<":", "m", "e", "m", "o", "r", "y", ":">>

\* createKnexConfig, the sqlite branch: the file the handle opens
SqliteFilename(connectionString) ==
  IF connectionString = SQLITE_MEMORY THEN MEMORY
  ELSE IF StartsWith(connectionString, SQLITE_PREFIX)
    THEN SubSeq(connectionString, Len(SQLITE_PREFIX) + 1, Len(connectionString))
  ELSE MEMORY

Pool(restricted) ==
  IF restricted THEN [min |-> 1, max |-> 2] ELSE [min |-> 2, max |-> 10]

createKnexConfig(type, connectionString, restricted) ==
  LET dbConfig == getDatabaseConfig(type)
  IN IF dbConfig.thrown THEN dbConfig
     ELSE IF type = "sqlite"
       THEN Returned([client |-> dbConfig.value.driver,
                      connection |-> Obj(<<"filename">>,
                                         <<Str(SqliteFilename(connectionString))>>),
                      useNullAsDefault |-> Bool(TRUE),
                      pool |-> Pool(restricted),
                      acquireConnectionTimeout |-> Undefined])
     ELSE Returned([client |-> dbConfig.value.driver,
                    connection |-> Str(connectionString),
                    useNullAsDefault |-> Undefined,
                    pool |-> Pool(restricted),
                    acquireConnectionTimeout |->
                      IF restricted THEN Num(5000) ELSE Undefined])

\* knex(config): the n-th handle built during the call
NewHandle(config, n) == [k |-> "handle", config |-> config, id |-> n]

\* tryStandardConnection / tryRestrictedConnection: `live` is the outcome of
\* building the handle and of its `SELECT 1`.
TryConnection(type, connectionString, restricted, live, n) ==
  LET config == createKnexConfig(type, connectionString, restricted)
  IN IF config.thrown THEN config
     ELSE IF live.thrown THEN live
     ELSE Returned(NewHandle(config.value, n))

D_STANDARD_TRY == <<"Tentative de connexion standard...">>
D_STANDARD_OK == <<"Connexion standard réussie">>
D_STANDARD_FAILED == <<"Connexion standard échouée: ">>
D_RESTRICTED_TRY == <<"Tentative en mode restreint (permissions limitées)...">>
D_RESTRICTED_OK == <<"Connexion restreinte réussie">>
D_RESTRICTED_FAILED == <<"Mode restreint échoué: ">>
D_DIRECT_TRY == <<"Tentative avec SQLAlchemy direct...">>
D_DIRECT_OK == <<"Connexion SQLAlchemy directe réussie">>
D_ALL_FAILED == <<"Toutes les tentatives ont échoué">>
D_LAST_ERROR == <<"Dernière erreur: ">>
ELLIPSIS == <<"...">>

\* Dialects a ConnectionManager is constructed with; "oracle" has no entry
\* in DB_CONFIGS.
CmDialects == DatabaseTypes \cup {"oracle"}

ConnectionStrings ==
  {SQLITE_MEMORY,
   <<"s", "q", "l", "i", "t", "e", ":", "/", "/", "/", "d", "a", "t", "a", ".", "d", "b">>,
   <<"p", "o", "s", "t", "g", "r", "e", "s", "q", "l", ":", "/", "/", "u", ":", "p", "@", "h", ":", "5", "4", "3", "2", "/", "d">>}

\* Values knex(config) or the `SELECT 1` of a tier throws.
CmThrownValues ==
  {Err(<<"p", "e", "r", "m", "i", "s", "s", "i", "o", "n", " ", "d", "e", "n", "i", "e", "d", " ", "f", "o", "r", " ", "r", "e", "l", "a", "t", "i", "o", "n", " ", "u", "s", "e", "r", "s">>),
   Err(<<"I", "n", "s", "u", "f", "f", "i", "c", "i", "e", "n", "t", " ", "p", "r", "i", "v", "i", "l", "e", "g", "e", "s">>),
   Err(<<"A", "c", "c", "e", "s", "s", " ", "D", "e", "n", "i", "e", "d", " ", "f", "o", "r", " ", "u", "s", "e", "r">>),
   Str(<<"4", "0", "1", " ", "u", "n", "a", "u", "t", "h", "o", "r", "i", "z", "e", "d">>),
   Err(<<"c", "o", "n", "n", "e", "c", "t", "i", "o", "n", " ", "r", "e", "f", "u", "s", "e", "d">>),
   Err(<<"p", "a", "s", "s", "w", "o", "r", "d", " ", "a", "u", "t", "h", "e", "n", "t", "i", "c", "a", "t", "i", "o", "n", " ", "f", "a", "i", "l", "e", "d">>),
   Err(<<"C", "a", "n", "n", "o", "t", " ", "f", "i", "n", "d", " ", "m", "o", "d", "u", "l", "e", " ", "p", "g">>),
   Err(<< >>)}

LivenessOutcomes ==
  {Returned(Undefined)} \cup {Thrown(e) : e \in CmThrownValues}

\* Whether the catch block of a tier receives the thrown value.
TryCatches_OnlyErrors(e) == e.k = "Error"

TryCatches(e) == TRUE

\* A restricted tier that is tried again after it failed.
NextTier_Retry(tier, error) ==
  CASE tier = "standard" ->
         IF isPermissionError(error) THEN "restricted" ELSE "direct"
    [] tier = "restricted" -> "restricted"
    [] OTHER -> "none"

\* A ladder that gives up after the restricted tier failed.
NextTier_NoFallback(tier, error) ==
  CASE tier = "standard" ->
         IF isPermissionError(error) THEN "restricted" ELSE "direct"
    [] OTHER -> "none"

\* The tier tried after `tier` failed with `error`; "none" after the last.
NextTier(tier, error) ==
  CASE tier = "standard" ->
         IF isPermissionError(error) THEN "restricted" ELSE "direct"
    [] tier = "restricted" -> "direct"
    [] OTHER -> "none"

\* A list that keeps only what was pushed last.
PushDiagnostics_Discard(list, entries) == entries

\* diagnostics.push(...), for the entries pushed in one step
PushDiagnostics(list, entries) == list \o entries

SuccessEntry(tier) ==
  CASE tier = "standard" -> D_STANDARD_OK
    [] tier = "restricted" -> D_RESTRICTED_OK
    [] OTHER -> D_DIRECT_OK

AnnounceEntry(tier) ==
  CASE tier = "standard" -> D_STANDARD_TRY
    [] tier = "restricted" -> D_RESTRICTED_TRY
    [] OTHER -> D_DIRECT_TRY

\* The entries the catch block of a tier pushes, up to the next attempt.
FailureEntries(tier, error, next) ==
  LET errorMessage == ErrorMessageOf(error)
  IN CASE tier = "standard" ->
            <<D_STANDARD_FAILED \o SliceTo(errorMessage, 100) \o ELLIPSIS,
              AnnounceEntry(next)>>
       [] tier = "restricted" ->
            <<D_RESTRICTED_FAILED \o SliceTo(errorMessage, 100) \o ELLIPSIS>>
              \o (IF next = "none" THEN << >> ELSE <<AnnounceEntry(next)>>)
       [] OTHER ->
            <<D_ALL_FAILED,
              D_LAST_ERROR \o SliceTo(errorMessage, 200) \o ELLIPSIS>>

\* The error of a failed ConnectionResult, taken from the first attempt.
FailureError_First(attempts) == Str(ErrorMessageOf(attempts[1].ret.value))

\* The error of a failed ConnectionResult: the message of the last attempt.
FailureError(attempts) == Str(ErrorMessageOf(attempts[Len(attempts)].ret.value))

\* A success result that reports the tier the call started with.
SuccessMethod_First(attempts) == Str(<<attempts[1].tier>>)

\* The method of a successful ConnectionResult.
SuccessMethod(attempts) == Str(<<attempts[Len(attempts)].tier>>)

\* A failed result that keeps the method of the last attempt.
FailedConnection_KeepsMethod(attempts, diagnostics) ==
  [success |-> FALSE, connection |-> Undefined,
   method |-> Str(<<attempts[Len(attempts)].tier>>),
   error |-> FailureError(attempts), diagnostics |-> diagnostics]

FailedConnection(attempts, diagnostics) ==
  [success |-> FALSE, connection |-> Undefined, method |-> Undefined,
   error |-> FailureError(attempts), diagnostics |-> diagnostics]

SucceededConnection(attempts, diagnostics) ==
  [success |-> TRUE, connection |-> attempts[Len(attempts)].ret.value,
   method |-> SuccessMethod(attempts), error |-> Undefined,
   diagnostics |-> diagnostics]

\* createSafeConnection(connectionString), up to the first attempt
CmCall ==
  /\ cmPc = "idle"
  /\ \E type \in CmDialects, connectionString \in ConnectionStrings :
       /\ cmDbType' = type
       /\ cmConnectionString' = connectionString
  /\ cmDiagnostics' = PushDiagnostics(<< >>, <<AnnounceEntry("standard")>>)
  /\ cmAttempts' = << >>
  /\ cmHandles' = 0
  /\ cmResult' = None
  /\ cmPc' = "standard"
  /\ UNCHANGED <<assistant, fn, conc>>

\* One tier: the attempt, then its return or its catch block.
CmAttempt(tier, restricted) ==
  \E live \in LivenessOutcomes :
    LET built == ~createKnexConfig(cmDbType, cmConnectionString, restricted).thrown
        o == TryConnection(cmDbType, cmConnectionString, restricted, live,
                           cmHandles + 1)
        attempts == Append(cmAttempts,
                           [tier |-> tier, restricted |-> restricted, ret |-> o])
    IN /\ cmAttempts' = attempts
       /\ cmHandles' = IF built THEN cmHandles + 1 ELSE cmHandles
       /\ IF ~o.thrown
            THEN /\ cmDiagnostics' = PushDiagnostics(cmDiagnostics, <<SuccessEntry(tier)>>)
                 /\ cmResult' = Returned(SucceededConnection(attempts, cmDiagnostics'))
                 /\ cmPc' = "returned"
          ELSE IF ~TryCatches(o.value)
            THEN /\ cmDiagnostics' = cmDiagnostics
                 /\ cmResult' = o
                 /\ cmPc' = "returned"
          ELSE LET next == NextTier(tier, o.value)
               IN /\ cmDiagnostics' =
                       PushDiagnostics(cmDiagnostics, FailureEntries(tier, o.value, next))
                  /\ IF next = "none"
                       THEN /\ cmResult' = Returned(FailedConnection(attempts, cmDiagnostics'))
                            /\ cmPc' = "returned"
                       ELSE /\ cmResult' = cmResult
                            /\ cmPc' = next

\* Niveau 1: tryStandardConnection
CmStandard ==
  /\ cmPc = "standard"
  /\ CmAttempt("standard", FALSE)
  /\ UNCHANGED <<cmDbType, cmConnectionString, assistant, fn, conc>>

\* Niveau 2: tryRestrictedConnection
CmRestricted ==
  /\ cmPc = "restricted"
  /\ CmAttempt("restricted", TRUE)
  /\ UNCHANGED <<cmDbType, cmConnectionString, assistant, fn, conc>>

\* Niveau 3: tryDirectSQLAlchemyConnection, which calls tryRestrictedConnection
CmDirect ==
  /\ cmPc = "direct"
  /\ CmAttempt("direct", TRUE)
  /\ UNCHANGED <<cmDbType, cmConnectionString, assistant, fn, conc>>

\* The caller has the result; the locals of the call are gone.
CmReturn ==
  /\ cmPc = "returned"
  /\ cmPc' = "idle"
  /\ cmDbType' = "none"
  /\ cmConnectionString' = << >>
  /\ cmDiagnostics' = << >>
  /\ cmAttempts' = << >>
  /\ cmHandles' = 0
  /\ cmResult' = None
  /\ UNCHANGED <<assistant, fn, conc>>

\* A ConnectionManager next to an assistant that no one calls.
AssistantUncalled ==
  /\ AssistantInit
  /\ dbType = "sqlite"
  /\ Truthy(initParams.databaseUrl)

InitConn ==
  /\ AssistantUncalled
  /\ CmIdle
  /\ FnIdle
  /\ NoRuns

NextConn ==
  \/ CmCall
  \/ CmStandard
  \/ CmRestricted
  \/ CmDirect
  \/ CmReturn

SpecConn == InitConn /\ [][NextConn]_vars

(***************************************************************************)
(* Vocabulary of the properties of createSafeConnection.                   *)
(***************************************************************************)
\* The call returned a ConnectionResult.
CmReturned == cmPc = "returned" /\ cmResult # None /\ ~cmResult.thrown

\* That ConnectionResult.
CR == cmResult.value

Tiers(attempts) == [i \in 1..Len(attempts) |-> attempts[i].tier]

TierLadders ==
  {<<"standard">>, <<"standard", "restricted">>, <<"standard", "direct">>,
   <<"standard", "restricted", "direct">>}

IsPrefix(a, b) == Len(a) <= Len(b) /\ a = SubSeq(b, 1, Len(a))

\* Positions of the entries of a diagnostics list that begin with a text.
EntriesWith(diagnostics, prefix) ==
  {i \in 1..Len(diagnostics) : StartsWith(diagnostics[i], prefix)}

FailurePrefix(tier) ==
  CASE tier = "standard" -> D_STANDARD_FAILED
    [] tier = "restricted" -> D_RESTRICTED_FAILED
    [] OTHER -> D_LAST_ERROR

\* The lower-cased message of the error holds one of the four phrases.
MentionsPermission(error) ==
  \E phrase \in {PERMISSION_DENIED, INSUFFICIENT, ACCESS_DENIED, UNAUTHORIZED} :
    Includes(ToLowerCase(ErrorMessageOf(error)), phrase)

\* The diagnostics hold, for every attempt, its announcement and then its
\* outcome entry.
DiagnosticsCover(diagnostics, attempts) ==
  \A i \in 1..Len(attempts) :
    /\ EntriesWith(diagnostics, AnnounceEntry(attempts[i].tier)) # {}
    /\ IF attempts[i].ret.thrown
         THEN EntriesWith(diagnostics, FailurePrefix(attempts[i].tier)) # {}
         ELSE EntriesWith(diagnostics, SuccessEntry(attempts[i].tier)) # {}

(***************************************************************************)
(* C11.  createSafeConnection tries the tiers only in the order standard,  *)
(* restricted, direct, each at most once (at most three attempts), the     *)
(* standard tier first, and tries no tier after one that succeeded.        *)
(***************************************************************************)
C11_TiersInOrderAtMostOnce ==
  /\ Len(cmAttempts) <= 3
  /\ cmHandles <= 3
  /\ cmAttempts # << >> =>
       {l \in TierLadders : IsPrefix(Tiers(cmAttempts), l)} # {}
  /\ \A i, j \in 1..Len(cmAttempts) : i # j => cmAttempts[i].tier # cmAttempts[j].tier
  /\ \A i \in 1..(Len(cmAttempts) - 1) : cmAttempts[i].ret.thrown
  /\ cmPc = "standard" => cmAttempts = << >>
  /\ cmPc \in {"restricted", "direct"}
       => /\ cmAttempts # << >>
          /\ cmAttempts[Len(cmAttempts)].ret.thrown
          /\ \A i \in 1..Len(cmAttempts) : cmAttempts[i].tier # cmPc
  /\ cmPc = "returned" => cmAttempts # << >>

\* All three tiers were tried and the last one succeeded.
C11_Witness ==
  /\ CmReturned
  /\ Tiers(cmAttempts) = <<"standard", "restricted", "direct">>
  /\ CR.success = TRUE

(***************************************************************************)
(* C12.  The restricted tier is tried exactly when the standard tier       *)
(* failed with an error whose lower-cased message holds "permission        *)
(* denied", "insufficient", "access denied" or "unauthorized"; nothing     *)
(* else about the error changes the tiers tried.                           *)
(***************************************************************************)
C12_RestrictedIffPermissionError ==
  cmAttempts # << >>
  => LET first == cmAttempts[1].ret
         restrictedTried ==
           \/ cmPc = "restricted"
           \/ \E i \in 1..Len(cmAttempts) : cmAttempts[i].tier = "restricted"
     IN /\ restrictedTried <=> (first.thrown /\ MentionsPermission(first.value))
        /\ (first.thrown /\ ~MentionsPermission(first.value) /\ cmPc # "returned")
             => cmPc = "direct"

\* The phrase is in the message in another letter case.
C12_Witness ==
  /\ CmReturned
  /\ cmAttempts[1].ret = Thrown(Err(<<"A", "c", "c", "e", "s", "s", " ", "D", "e", "n", "i", "e", "d", " ", "f", "o", "r", " ", "u", "s", "e", "r">>))
  /\ Tiers(cmAttempts) = <<"standard", "restricted">>
  /\ CR.method = Str(<<"restricted">>)

(***************************************************************************)
(* C13.  When the standard tier failed and the restricted tier was not     *)
(* tried or failed too, the direct tier is tried, whatever the errors      *)
(* were; success=false is never returned without a direct attempt.         *)
(***************************************************************************)
C13_DirectIsTheLastResort ==
  /\ (/\ cmPc = "returned"
      /\ cmAttempts[1].ret.thrown
      /\ \A i \in 1..Len(cmAttempts) :
           cmAttempts[i].tier = "restricted" => cmAttempts[i].ret.thrown)
     => \E i \in 1..Len(cmAttempts) : cmAttempts[i].tier = "direct"
  /\ (CmReturned /\ CR.success = FALSE)
     => cmAttempts[Len(cmAttempts)].tier = "direct"

\* The restricted tier failed with an error that names no permission.
C13_Witness ==
  /\ CmReturned
  /\ CR.success = FALSE
  /\ Tiers(cmAttempts) = <<"standard", "restricted", "direct">>
  /\ ~MentionsPermission(cmAttempts[2].ret.value)

(***************************************************************************)
(* C14.  On success, method names the tier whose attempt succeeded, the    *)
(* connection is the handle that tier built, and the diagnostics hold an   *)
(* entry for every tier tried before it and for the tier that succeeded.   *)
(***************************************************************************)
C14_SuccessNamesTheTier ==
  (CmReturned /\ CR.success = TRUE)
  => LET n == Len(cmAttempts)
         last == cmAttempts[n]
     IN /\ ~last.ret.thrown
        /\ \A i \in 1..(n - 1) : cmAttempts[i].ret.thrown
        /\ CR.method = Str(<<last.tier>>)
        /\ last.tier \in {"standard", "restricted", "direct"}
        /\ CR.connection = last.ret.value
        /\ CR.connection.k = "handle"
        /\ CR.connection.id = cmHandles
        /\ CR.connection.config.pool = Pool(last.tier # "standard")
        /\ DiagnosticsCover(CR.diagnostics, cmAttempts)

\* Scenario D.
C14_Witness ==
  /\ CmReturned
  /\ cmAttempts[1].ret = Thrown(Err(PERMISSION_DENIED \o <<" ", "f", "o", "r", " ", "r", "e", "l", "a", "t", "i", "o", "n", " ", "u", "s", "e", "r", "s">>))
  /\ CR.success = TRUE
  /\ CR.method = Str(<<"restricted">>)
  /\ CR.connection.id = 2
  /\ Len(CR.diagnostics) = 4

(***************************************************************************)
(* C15.  When every tier tried fails, createSafeConnection returns         *)
(* success=false with the error message of the last tier tried, the direct *)
(* tier, and diagnostics that cover every tier tried.                      *)
(***************************************************************************)
C15_FailureCarriesLastError ==
  (/\ cmPc = "returned"
   /\ \A i \in 1..Len(cmAttempts) : cmAttempts[i].ret.thrown)
  => /\ CmReturned
     /\ CR.success = FALSE
     /\ cmAttempts[Len(cmAttempts)].tier = "direct"
     /\ CR.error = Str(ErrorMessageOf(cmAttempts[Len(cmAttempts)].ret.value))
     /\ DiagnosticsCover(CR.diagnostics, cmAttempts)
     /\ EntriesWith(CR.diagnostics, D_ALL_FAILED) # {}

\* The tiers failed with three different messages.
C15_Witness ==
  /\ CmReturned
  /\ CR.success = FALSE
  /\ Len(cmAttempts) = 3
  /\ ErrorMessageOf(cmAttempts[1].ret.value) # ErrorMessageOf(cmAttempts[3].ret.value)
  /\ ErrorMessageOf(cmAttempts[2].ret.value) # ErrorMessageOf(cmAttempts[3].ret.value)
  /\ CR.error = Str(<<"c", "o", "n", "n", "e", "c", "t", "i", "o", "n", " ", "r", "e", "f", "u", "s", "e", "d">>)

(***************************************************************************)
(* C16.  Every ConnectionResult has exactly one of connection and error:   *)
(* success=true comes with a connection and a method and no error,         *)
(* success=false with an error and neither connection nor method.          *)
(***************************************************************************)
C16_ConnectionXorError ==
  CmReturned
  => /\ (CR.connection # Undefined) # (CR.error # Undefined)
     /\ CR.success = TRUE
          => /\ CR.connection # Undefined
             /\ CR.method # Undefined
             /\ CR.error = Undefined
     /\ CR.success = FALSE
          => /\ CR.error # Undefined
             /\ CR.error.k = "string"
             /\ CR.connection = Undefined
             /\ CR.method = Undefined

\* A failure after the restricted tier had been tried.
C16_Witness ==
  /\ CmReturned
  /\ CR.success = FALSE
  /\ Len(cmAttempts) = 3
  /\ CR.error # Str(<< >>)

(***************************************************************************)
(* C17.  createSafeConnection never throws: for every dialect, one without *)
(* an entry in DB_CONFIGS included, every connection string and every      *)
(* value thrown while a tier builds its configuration or checks the        *)
(* handle, the call ends by returning a ConnectionResult.                  *)
(***************************************************************************)
C17_NeverThrows ==
  cmPc = "returned"
  => /\ cmResult # None
     /\ ~cmResult.thrown
     /\ cmResult.value.success \in BOOLEAN
     /\ cmResult.value.diagnostics = cmDiagnostics

\* The dialect has no entry in DB_CONFIGS: createKnexConfig throws in each tier.
C17_Witness ==
  /\ CmReturned
  /\ cmDbType = "oracle"
  /\ cmHandles = 0
  /\ Len(cmAttempts) = 2
  /\ CR.success = FALSE
  /\ CR.error = Str(<<"Unsupported database type: ", "oracle">>)

(***************************************************************************)
(* C18.  During a call the diagnostics list only grows at its end, its     *)
(* entries are in attempt order, the whole list is returned on success and *)
(* on failure, and a run that fails after a set of tiers returns at least  *)
(* as many diagnostics as a run that succeeds after the same tiers.        *)
(***************************************************************************)
\* The announcements of the tiers tried are in the order of the attempts.
AnnouncedInOrder(diagnostics, attempts) ==
  \A i, j \in 1..Len(attempts) :
    i < j => \A a \in EntriesWith(diagnostics, AnnounceEntry(attempts[i].tier)),
                b \in EntriesWith(diagnostics, AnnounceEntry(attempts[j].tier)) :
               a < b

C18_DiagnosticsState ==
  /\ AnnouncedInOrder(cmDiagnostics, cmAttempts)
  /\ cmPc # "idle" => cmDiagnostics[1] = D_STANDARD_TRY
  /\ CmReturned
     => /\ CR.diagnostics = cmDiagnostics
        /\ DiagnosticsCover(CR.diagnostics, cmAttempts)
        /\ CR.success = FALSE
             => \A o1 \in TierOutcomes("standard"),
                   o2 \in TierOutcomes("restricted"),
                   o3 \in TierOutcomes("restricted") :
                  LET other == createSafeConnection(o1, o2, o3)
                  IN (other.success /\ other.attempts = Tiers(cmAttempts))
                     => Len(CR.diagnostics) >= Len(other.diagnostics)

C18_DiagnosticsAppendOnly ==
  /\ [](C18_DiagnosticsState)
  /\ [][cmPc' # "idle" => /\ IsPrefix(cmDiagnostics, cmDiagnostics')
                          /\ Len(cmDiagnostics') >= Len(cmDiagnostics)]_vars

\* A failed run through all three tiers: seven entries.
C18_Witness ==
  /\ CmReturned
  /\ CR.success = FALSE
  /\ Len(cmAttempts) = 3
  /\ Len(CR.diagnostics) = 7

(***************************************************************************)
(* DatabaseTypeDetector.detectFromUri.  A confidence is held in            *)
(* hundredths: 100 is 1.0, 95 is 0.95.                                     *)
(***************************************************************************)
Detection(type, confidence, uri, reasoning) ==
  [detectedType |-> type, confidence |-> confidence, uri |-> uri,
   reasoning |-> reasoning]

K_SQLITE == <<"s", "q", "l", "i", "t", "e">>
K_POSTGRESQL == <<"p", "o", "s", "t", "g", "r", "e", "s", "q", "l">>
K_POSTGRES == <<"p", "o", "s", "t", "g", "r", "e", "s">>
K_MYSQL == <<"m", "y", "s", "q", "l">>
K_MARIADB == <<"m", "a", "r", "i", "a", "d", "b">>

\* A detector without the keyword block.
KeywordRule_None(uri, lowerUri) == None

\* A keyword block that looks for postgres before sqlite.
KeywordRule_PostgresFirst(uri, lowerUri) ==
  IF Includes(lowerUri, K_POSTGRESQL) \/ Includes(lowerUri, K_POSTGRES)
    THEN Detection("postgresql", 100, uri,
                   <<<<"Mot-clé \"postgresql/postgres\" trouvé dans l'URI">>>>)
  ELSE IF Includes(lowerUri, K_SQLITE)
    THEN Detection("sqlite", 100, uri, <<<<"Mot-clé \"sqlite\" trouvé dans l'URI">>>>)
  ELSE IF Includes(lowerUri, K_MYSQL) /\ ~Includes(lowerUri, K_MARIADB)
    THEN Detection("mysql", 90, uri,
                   <<<<"Mot-clé \"mysql\" trouvé dans l'URI (sans mariadb)">>>>)
  ELSE IF Includes(lowerUri, K_MARIADB)
    THEN Detection("mariadb", 100, uri, <<<<"Mot-clé \"mariadb\" trouvé dans l'URI">>>>)
  ELSE None

\* A keyword block whose mysql test does not look for mariadb.
KeywordRule_MysqlFirst(uri, lowerUri) ==
  IF Includes(lowerUri, K_SQLITE)
    THEN Detection("sqlite", 100, uri, <<<<"Mot-clé \"sqlite\" trouvé dans l'URI">>>>)
  ELSE IF Includes(lowerUri, K_POSTGRESQL) \/ Includes(lowerUri, K_POSTGRES)
    THEN Detection("postgresql", 100, uri,
                   <<<<"Mot-clé \"postgresql/postgres\" trouvé dans l'URI">>>>)
  ELSE IF Includes(lowerUri, K_MYSQL)
    THEN Detection("mysql", 90, uri,
                   <<<<"Mot-clé \"mysql\" trouvé dans l'URI (sans mariadb)">>>>)
  ELSE IF Includes(lowerUri, K_MARIADB)
    THEN Detection("mariadb", 100, uri, <<<<"Mot-clé \"mariadb\" trouvé dans l'URI">>>>)
  ELSE None

\* Détection par mots-clés dans l'URI: the detection, or None to go on.
KeywordRule(uri, lowerUri) ==
  IF Includes(lowerUri, K_SQLITE)
    THEN Detection("sqlite", 100, uri, <<<<"Mot-clé \"sqlite\" trouvé dans l'URI">>>>)
  ELSE IF Includes(lowerUri, K_POSTGRESQL) \/ Includes(lowerUri, K_POSTGRES)
    THEN Detection("postgresql", 100, uri,
                   <<<<"Mot-clé \"postgresql/postgres\" trouvé dans l'URI">>>>)
  ELSE IF Includes(lowerUri, K_MYSQL) /\ ~Includes(lowerUri, K_MARIADB)
    THEN Detection("mysql", 90, uri,
                   <<<<"Mot-clé \"mysql\" trouvé dans l'URI (sans mariadb)">>>>)
  ELSE IF Includes(lowerUri, K_MARIADB)
    THEN Detection("mariadb", 100, uri, <<<<"Mot-clé \"mariadb\" trouvé dans l'URI">>>>)
  ELSE None

\* uriPatterns: the prefix each pattern anchors at the start of the URI
uriPatterns ==
  <<[prefix |-> <<"m", "y", "s", "q", "l", ":", "/", "/">>, type |-> "mysql",
     reason |-> <<"Pattern MySQL détecté">>],
    [prefix |-> <<"p", "o", "s", "t", "g", "r", "e", "s", "q", "l", ":", "/", "/">>, type |-> "postgresql",
     reason |-> <<"Pattern PostgreSQL détecté">>],
    [prefix |-> <<"s", "q", "l", "i", "t", "e", ":", "/", "/">>, type |-> "sqlite",
     reason |-> <<"Pattern SQLite détecté">>]>>

\* portPatterns, one port each
portPatterns ==
  <<[port |-> <<":", "5", "4", "3", "2">>, digits |-> <<"5", "4", "3", "2">>, type |-> "postgresql",
     reason |-> <<"Port PostgreSQL détecté">>],
    [port |-> <<":", "3", "3", "0", "6">>, digits |-> <<"3", "3", "0", "6">>, type |-> "mysql",
     reason |-> <<"Port MySQL/MariaDB détecté">>]>>

\* The first of a set of indexes a loop finds, or 0 when the set is empty.
FirstIndex(hits) ==
  IF hits = {} THEN 0 ELSE CHOOSE i \in hits : \A j \in hits : i <= j

\* Détection par pattern d'URI
SchemeRule(uri, text) ==
  LET i == FirstIndex({n \in 1..Len(uriPatterns) :
                         StartsWith(text, uriPatterns[n].prefix)})
  IN IF i = 0 THEN None
     ELSE Detection(uriPatterns[i].type, 95, uri, <<uriPatterns[i].reason>>)

\* Détection par numéro de port
PortRule(uri, text) ==
  LET i == FirstIndex({n \in 1..Len(portPatterns) :
                         Includes(text, portPatterns[n].port)})
  IN IF i = 0 THEN None
     ELSE Detection(portPatterns[i].type, 80, uri,
                    <<portPatterns[i].reason \o <<" (">> \o portPatterns[i].digits
                        \o <<")">> >>)

\* detectFromUri with a fallback as sure as a keyword.
detectFromUri_ConfidentFallback(uri) ==
  IF ~Truthy(uri) \/ uri.k # "string"
    THEN Detection("sqlite", 0, uri,
                   <<<<"URI invalide ou manquante, fallback vers SQLite">>>>)
  ELSE LET lowerUri == ToLowerCase(uri.v)
           byKeyword == KeywordRule(uri, lowerUri)
           byScheme == SchemeRule(uri, uri.v)
           byPort == PortRule(uri, uri.v)
       IN IF byKeyword # None THEN byKeyword
          ELSE IF byScheme # None THEN byScheme
          ELSE IF byPort # None THEN byPort
          ELSE Detection("sqlite", 100, uri,
                         <<<<"Aucun pattern reconnu, fallback vers SQLite">>>>)

detectFromUri(uri) ==
  IF ~Truthy(uri) \/ uri.k # "string"
    THEN Detection("sqlite", 0, uri,
                   <<<<"URI invalide ou manquante, fallback vers SQLite">>>>)
  ELSE LET lowerUri == ToLowerCase(uri.v)
           byKeyword == KeywordRule(uri, lowerUri)
           byScheme == SchemeRule(uri, uri.v)
           byPort == PortRule(uri, uri.v)
       IN IF byKeyword # None THEN byKeyword
          ELSE IF byScheme # None THEN byScheme
          ELSE IF byPort # None THEN byPort
          ELSE Detection("sqlite", 10, uri,
                         <<<<"Aucun pattern reconnu, fallback vers SQLite">>>>)

\* Pieces of connection strings.
UriPieces ==
  {<< >>, <<"s", "q", "l", "i", "t", "e">>, <<"S", "Q", "L", "i", "t", "e", ":", "/", "/", "/">>, <<"p", "o", "s", "t", "g", "r", "e", "s">>, <<"P", "o", "s", "t", "g", "r", "e", "S", "Q", "L", ":", "/", "/">>, <<"m", "y", "s", "q", "l", ":", "/", "/">>,
   <<"M", "y", "S", "Q", "L">>, <<"m", "a", "r", "i", "a", "d", "b">>, <<":", "5", "4", "3", "2">>, <<":", "3", "3", "0", "6">>, <<"h", "o", "s", "t", "/", "d", "b">>}

\* Arguments of detectFromUri: strings put together from up to three pieces,
\* and values that are no string.
\* The example URI of PostgreSQL.
POSTGRESQL_URI == <<"p", "o", "s", "t", "g", "r", "e", "s", "q", "l", ":", "/", "/", "u", "s", "e", "r", ":", "p", "a", "s", "s", "@", "l", "o", "c", "a", "l", "h", "o", "s", "t", ":", "5", "4", "3", "2", "/", "d", "b">>

DetectInputs ==
  {Str(a \o b \o c) : a \in UriPieces, b \in UriPieces, c \in UriPieces}
    \cup {Str(POSTGRESQL_URI), Str(SQLITE_MEMORY), Undefined, Null, Num(5432)}

InitDetect ==
  /\ AssistantUncalled
  /\ CmIdle
  /\ NoRuns
  /\ input \in DetectInputs
  /\ output = None

\* DatabaseTypeDetector.detectFromUri(input)
ApplyDetectFromUri ==
  /\ input # None
  /\ output = None
  /\ output' = detectFromUri(input)
  /\ UNCHANGED <<assistant, cm, conc, input>>

NextDetect == ApplyDetectFromUri

SpecDetect == InitDetect /\ [][NextDetect]_vars

(***************************************************************************)
(* Vocabulary of the properties of detectFromUri.                          *)
(***************************************************************************)
\* The text holds the word, compared letter by letter in lower case.
HasWordAnyCase(text, word) ==
  \E i \in 1..(Len(text) - Len(word) + 1) :
    \A j \in 1..Len(word) : LowerChar(text[i + j - 1]) = word[j]

\* The text holds the word as written.
HasWord(text, word) ==
  \E i \in 1..(Len(text) - Len(word) + 1) :
    \A j \in 1..Len(word) : text[i + j - 1] = word[j]

\* The text begins with the word as written.
BeginsWith(text, word) ==
  /\ Len(text) >= Len(word)
  /\ \A j \in 1..Len(word) : text[j] = word[j]

\* The argument was a string and detectFromUri returned.
Detected == output # None /\ input.k = "string"

(***************************************************************************)
(* C19.  For every connection string whose lower-case form holds "sqlite", *)
(* detectFromUri returns sqlite with confidence 1.0, whatever keywords,    *)
(* scheme prefixes or ports the string also holds.                         *)
(***************************************************************************)
C19_SqliteKeywordWins ==
  (Detected /\ HasWordAnyCase(input.v, K_SQLITE))
  => /\ output.detectedType = "sqlite"
     /\ output.confidence = 100
     /\ output.uri = input

\* sqlite in capitals after a postgres scheme and before a MySQL port.
C19_Witness ==
  /\ Detected
  /\ input = Str(<<"P", "o", "s", "t", "g", "r", "e", "S", "Q", "L", ":", "/", "/", "S", "Q", "L", "i", "t", "e", ":", "/", "/", "/", ":", "3", "3", "0", "6">>)
  /\ output.detectedType = "sqlite"

(***************************************************************************)
(* C20.  detectFromUri is an ordered rule table in which the first rule    *)
(* that matches decides: keyword sqlite, keyword postgresql or postgres,   *)
(* keyword mysql without mariadb (0.9), keyword mariadb, the scheme        *)
(* prefixes (0.95), port :5432 (postgresql, 0.8), port :3306 (mysql, 0.8), *)
(* then sqlite at 0.1.  A string with postgres and :5432 is decided by a   *)
(* keyword rule at 1.0, and one with mysql and mariadb, and no earlier     *)
(* keyword, is mariadb.                                                    *)
(***************************************************************************)
RuleTable(text) ==
  <<[hit |-> HasWordAnyCase(text, K_SQLITE), type |-> "sqlite", confidence |-> 100],
    [hit |-> HasWordAnyCase(text, K_POSTGRESQL) \/ HasWordAnyCase(text, K_POSTGRES),
     type |-> "postgresql", confidence |-> 100],
    [hit |-> HasWordAnyCase(text, K_MYSQL) /\ ~HasWordAnyCase(text, K_MARIADB),
     type |-> "mysql", confidence |-> 90],
    [hit |-> HasWordAnyCase(text, K_MARIADB), type |-> "mariadb", confidence |-> 100],
    [hit |-> BeginsWith(text, <<"m", "y", "s", "q", "l", ":", "/", "/">>), type |-> "mysql", confidence |-> 95],
    [hit |-> BeginsWith(text, <<"p", "o", "s", "t", "g", "r", "e", "s", "q", "l", ":", "/", "/">>), type |-> "postgresql", confidence |-> 95],
    [hit |-> BeginsWith(text, <<"s", "q", "l", "i", "t", "e", ":", "/", "/">>), type |-> "sqlite", confidence |-> 95],
    [hit |-> HasWord(text, <<":", "5", "4", "3", "2">>), type |-> "postgresql", confidence |-> 80],
    [hit |-> HasWord(text, <<":", "3", "3", "0", "6">>), type |-> "mysql", confidence |-> 80],
    [hit |-> TRUE, type |-> "sqlite", confidence |-> 10]>>

FirstRule(table) ==
  table[CHOOSE i \in 1..Len(table) :
          table[i].hit /\ \A j \in 1..(i - 1) : ~table[j].hit]

C20_FirstMatchingRuleDecides ==
  (Detected /\ input.v # << >>)
  => LET rule == FirstRule(RuleTable(input.v))
     IN /\ output.detectedType = rule.type
        /\ output.confidence = rule.confidence
        /\ output.uri = input
        /\ Len(output.reasoning) = 1
        /\ (HasWordAnyCase(input.v, K_POSTGRES) /\ HasWord(input.v, <<":", "5", "4", "3", "2">>))
             => output.confidence = 100
        /\ (/\ HasWordAnyCase(input.v, K_MYSQL)
            /\ HasWordAnyCase(input.v, K_MARIADB)
            /\ ~HasWordAnyCase(input.v, K_SQLITE)
            /\ ~HasWordAnyCase(input.v, K_POSTGRES))
             => output.detectedType = "mariadb"

\* Scenario C.
C20_Witness ==
  /\ Detected
  /\ input = Str(POSTGRESQL_URI)
  /\ output.detectedType = "postgresql"
  /\ output.confidence = 100

(***************************************************************************)
(* C21.  For every empty or invalid URI (an empty or non-string argument,  *)
(* or a string that no keyword, scheme or port rule recognises),           *)
(* detectFromUri returns sqlite with confidence at most 0.1: exactly 0 for *)
(* an empty or non-string argument, and 0.1 with the reasoning entry that  *)
(* no pattern was recognised otherwise.  Every result has a confidence in  *)
(* [0,1] and a non-empty reasoning list.                                   *)
(***************************************************************************)
\* The argument is a string that one of the rules recognises.
Recognised(uri) ==
  /\ uri.k = "string"
  /\ \E i \in 1..(Len(RuleTable(uri.v)) - 1) : RuleTable(uri.v)[i].hit

EmptyOrNoString(uri) == uri.k # "string" \/ uri.v = << >>

C21_UnrecognisedFallsBackToSqlite ==
  output # None
  => /\ output.confidence \in 0..100
     /\ Len(output.reasoning) > 0
     /\ EmptyOrNoString(input)
          => /\ output.detectedType = "sqlite"
             /\ output.confidence = 0
     /\ (~EmptyOrNoString(input) /\ ~Recognised(input))
          => /\ output.detectedType = "sqlite"
             /\ output.confidence = 10
             /\ output.reasoning = <<<<"Aucun pattern reconnu, fallback vers SQLite">>>>

\* A host and a path without keyword, scheme or port.
C21_Witness ==
  /\ output # None
  /\ input = Str(<<"h", "o", "s", "t", "/", "d", "b", "h", "o", "s", "t", "/", "d", "b">>)
  /\ output.detectedType = "sqlite"
  /\ output.confidence = 10

(***************************************************************************)
(* DatabaseTypeDetector.isSupportedType and detectFromEnv, and the         *)
(* constructor of SQLAssistant with detectDatabaseType.  env is            *)
(* process.env: an entry is Undefined or a string.  The name of a dialect  *)
(* is a text of one piece.                                                 *)
(***************************************************************************)
isSupportedType(type) ==
  type.k = "string" /\ type.v \in {<<"sqlite">>, <<"postgresql">>, <<"mysql">>, <<"mariadb">>}

\* A detectFromEnv that looks at DB_TYPE before DATABASE_URL.
detectFromEnv_TypeFirst(env) ==
  IF Truthy(env.DB_TYPE)
    THEN Detection(env.DB_TYPE.v[1], 90, Str(<< >>),
                   <<<<"Type spécifié via DB_TYPE: ">> \o env.DB_TYPE.v>>)
  ELSE IF Truthy(env.DATABASE_URL)
    THEN detectFromUri(env.DATABASE_URL)
  ELSE Detection("sqlite", 10, Str(<< >>),
                 <<<<"Aucune configuration trouvée, fallback vers SQLite">>>>)

detectFromEnv(env) ==
  IF Truthy(env.DATABASE_URL)
    THEN detectFromUri(env.DATABASE_URL)
  ELSE IF Truthy(env.DB_TYPE)
    THEN Detection(env.DB_TYPE.v[1], 90, Str(<< >>),
                   <<<<"Type spécifié via DB_TYPE: ">> \o env.DB_TYPE.v>>)
  ELSE Detection("sqlite", 10, Str(<< >>),
                 <<<<"Aucune configuration trouvée, fallback vers SQLite">>>>)

MsgUnsupportedType == <<"Type de base de données non supporté: ">>

\* detectDatabaseType: the dialect it returns or the error it throws, with the
\* detection it obtained and logged (None when it made none).
detectDatabaseType(explicitType, databaseUrl, env) ==
  IF Truthy(explicitType)
    THEN IF ~isSupportedType(explicitType)
           THEN [thrown |-> TRUE,
                 value |-> Err(MsgUnsupportedType \o ToStringValue(explicitType)),
                 detection |-> None]
           ELSE [thrown |-> FALSE, value |-> explicitType.v[1], detection |-> None]
  ELSE IF Truthy(databaseUrl)
    THEN LET detection == detectFromUri(databaseUrl)
         IN [thrown |-> FALSE, value |-> detection.detectedType,
             detection |-> detection]
  ELSE LET envDetection == detectFromEnv(env)
       IN [thrown |-> FALSE, value |-> envDetection.detectedType,
           detection |-> envDetection]

MsgApiKeyRequired == <<"Google API key is required">>

\* A destructuring default, `name = value`: it applies to undefined only.
DefaultTo(v, d) == IF v = Undefined THEN d ELSE v

\* A constructor that detects the dialect before it checks the API key.
NewSQLAssistant_DetectFirst(options, env) ==
  LET googleApiKey == DefaultTo(options.googleApiKey, env.GOOGLE_API_KEY)
      databaseUrl == DefaultTo(options.databaseUrl, env.DATABASE_URL)
      detected == detectDatabaseType(options.dbType, databaseUrl, env)
  IN IF detected.thrown THEN detected
     ELSE IF ~Truthy(googleApiKey)
       THEN [thrown |-> TRUE, value |-> Err(MsgApiKeyRequired),
             detection |-> detected.detection]
     ELSE [thrown |-> FALSE,
           value |-> [dbType |-> detected.value,
                      initParams |-> [k |-> "object", databaseUrl |-> databaseUrl,
                                      dbConfig |-> options.dbConfig]],
           detection |-> detected.detection]

\* new SQLAssistant(options): the fields of the instance, or the error thrown.
NewSQLAssistant(options, env) ==
  LET googleApiKey == DefaultTo(options.googleApiKey, env.GOOGLE_API_KEY)
      databaseUrl == DefaultTo(options.databaseUrl, env.DATABASE_URL)
  IN IF ~Truthy(googleApiKey)
       THEN [thrown |-> TRUE, value |-> Err(MsgApiKeyRequired), detection |-> None]
     ELSE LET detected == detectDatabaseType(options.dbType, databaseUrl, env)
          IN IF detected.thrown THEN detected
             ELSE [thrown |-> FALSE,
                   value |-> [dbType |-> detected.value,
                              initParams |-> [k |-> "object",
                                              databaseUrl |-> databaseUrl,
                                              dbConfig |-> options.dbConfig]],
                   detection |-> detected.detection]

MYSQL_URI == <<"m", "y", "s", "q", "l", ":", "/", "/", "u", "s", "e", "r", ":", "p", "a", "s", "s", "w", "o", "r", "d", "@", "l", "o", "c", "a", "l", "h", "o", "s", "t", ":", "3", "3", "0", "6", "/", "d", "a", "t", "a", "b", "a", "s", "e">>
FILE_NAME == <<"d", "a", "t", "a", ".", "d", "b">>

\* The options callers pass and the environments they run in.
ConstructOptions ==
  [k : {"object"},
   googleApiKey : {Undefined, Str(<<"test-api-key">>)},
   databaseUrl : {Undefined, Str(<< >>), Str(POSTGRESQL_URI), Str(FILE_NAME)},
   dbType : {Undefined, Str(<<"sqlite">>), Str(<<"mysql">>), Str(<<"oracle">>)},
   dbConfig : {Undefined, FullConfig}]

ProcessEnvs ==
  [GOOGLE_API_KEY : {Undefined, Str(<<"env-api-key">>)},
   DATABASE_URL : {Undefined, Str(<< >>), Str(MYSQL_URI), Str(FILE_NAME)},
   DB_TYPE : {Undefined, Str(<<"mariadb">>), Str(<<"oracle">>)}]

ConstructInputs == [options : ConstructOptions, env : ProcessEnvs]

\* The fields of an instance before its constructor ran.
Unconstructed ==
  /\ db = Null
  /\ initParams = Undefined
  /\ queryChain = Null
  /\ dbType = "none"
  /\ destroyed = 0
  /\ now = 0
  /\ nCalls = 0
  /\ pc = "idle"
  /\ entry = "none"
  /\ question = << >>
  /\ stage = "none"
  /\ startTime = 0
  /\ stepStart = 0
  /\ steps = << >>
  /\ opOutcome = None
  /\ thrownError = None
  /\ sqlQuery = << >>
  /\ qres = None
  /\ calls = << >>
  /\ result = None

InitConstruct ==
  /\ Unconstructed
  /\ CmIdle
  /\ NoRuns
  /\ input \in ConstructInputs
  /\ output = None

\* new SQLAssistant(input.options) in the environment input.env
Construct ==
  /\ input # None
  /\ output = None
  /\ LET made == NewSQLAssistant(input.options, input.env)
     IN /\ output' = made
        /\ IF made.thrown
             THEN UNCHANGED <<dbType, initParams>>
             ELSE /\ dbType' = made.value.dbType
                  /\ initParams' = made.value.initParams
  /\ UNCHANGED <<db, queryChain, destroyed, now, nCalls, pc, entry, question,
                 exec, sqlQuery, qres, calls, result, cm, conc, input>>

NextConstruct == Construct

SpecConstruct == InitConstruct /\ [][NextConstruct]_vars

(***************************************************************************)
(* Vocabulary of the properties of the constructor.                        *)
(***************************************************************************)
\* The constructor returned an instance.
Constructed == output # None /\ ~output.thrown

\* An environment entry that is set to a value.
IsSet(e) == e # Undefined /\ e.v # << >>

\* The caller gave no dialect and no connection string.
NothingExplicit ==
  /\ input.options.dbType = Undefined
  /\ input.options.databaseUrl \in {Undefined, Str(<< >>)}

(***************************************************************************)
(* C22.  When no explicit dialect and no explicit connection string are    *)
(* given, detection uses the DATABASE_URL environment value if it is set   *)
(* (the result is that of detectFromUri on that value, even when DB_TYPE   *)
(* is set too), else the DB_TYPE value at confidence 0.9, else sqlite at   *)
(* confidence 0.1.                                                         *)
(***************************************************************************)
C22_EnvironmentFallback ==
  (Constructed /\ NothingExplicit)
  => LET url == input.env.DATABASE_URL
         type == input.env.DB_TYPE
     IN /\ IsSet(url)
             => /\ output.detection = detectFromUri(url)
                /\ dbType = detectFromUri(url).detectedType
        /\ (~IsSet(url) /\ IsSet(type))
             => /\ output.detection.detectedType = type.v[1]
                /\ output.detection.confidence = 90
                /\ dbType = type.v[1]
        /\ (~IsSet(url) /\ ~IsSet(type))
             => /\ output.detection.detectedType = "sqlite"
                /\ output.detection.confidence = 10
                /\ dbType = "sqlite"

\* DATABASE_URL names MySQL, DB_TYPE names MariaDB, and the caller passed an
\* empty connection string, so that detectFromEnv decides.
C22_Witness ==
  /\ Constructed
  /\ NothingExplicit
  /\ input.options.databaseUrl = Str(<< >>)
  /\ input.env.DATABASE_URL = Str(MYSQL_URI)
  /\ input.env.DB_TYPE = Str(<<"mariadb">>)
  /\ dbType = "mysql"
  /\ output.detection.confidence = 90

(***************************************************************************)
(* C23.  Whenever the constructor returns normally, the dialect of the     *)
(* instance is one of sqlite, postgresql, mysql, mariadb, whichever source *)
(* supplied it (the dbType option, the connection string, DATABASE_URL or  *)
(* DB_TYPE); any other explicit dialect makes the constructor fail with    *)
(* the unsupported-dialect error, and a supported explicit dialect is used *)
(* as is, without detection.                                               *)
(***************************************************************************)
C23_ConstructedDialectIsSupported ==
  LET explicitType == input.options.dbType
      hasKey == Truthy(DefaultTo(input.options.googleApiKey,
                                 input.env.GOOGLE_API_KEY))
  IN output # None
     => /\ ~output.thrown => dbType \in DatabaseTypes
        /\ (hasKey /\ Truthy(explicitType) /\ explicitType.v[1] \notin DatabaseTypes)
             => /\ output.thrown
                /\ StartsWith(output.value.message, MsgUnsupportedType)
        /\ (hasKey /\ Truthy(explicitType) /\ explicitType.v[1] \in DatabaseTypes)
             => /\ ~output.thrown
                /\ dbType = explicitType.v[1]
                /\ output.detection = None

(***************************************************************************)
(* Concurrent calls on one SQLAssistant.  A call of an async method runs   *)
(* without interruption up to an await of a collaborator (the connection,  *)
(* db.raw, generateContent, destroy) and goes on when the collaborator     *)
(* answered; between the two, other calls on the instance may start or go  *)
(* on.  A call started after another one returned is the sequential case.  *)
(* The pipeline's steps, timings and formatted text are those of Spec;     *)
(* here a processQuery call keeps the outcome of its ChainResult only.     *)
(***************************************************************************)
\* Calls of any public method, and calls of initialize and disconnect alone.
MaxRuns == 2
MaxLifecycleRuns == 3

Run(op, q) ==
  [op |-> op, pc |-> "start", question |-> q, sqlQuery |-> << >>, result |-> None]

\* What a call did to a connection: op is "connect" (createSafeConnection was
\* called), "established" (it gave a handle), "raw" or "destroy".
Event(r, op, handle) == [run |-> r, op |-> op, handle |-> handle]

\* The handle a successful createSafeConnection returned, the n-th of the instance.
Established(handle, n) == [k |-> "handle", pool |-> handle.pool, id |-> n]

\* The assignment after `await this.db.destroy()`, without its effect.
AfterDestroy_Keeps(handle) == handle

\* disconnect: `this.db = null` after `await this.db.destroy()`
AfterDestroy(handle) == Null

AsyncQuestions == {Q_SALAIRE, Q_DROP}
AsyncThrown == {Err(<<"connect ECONNREFUSED">>)}
AsyncTierOutcomes(pool) ==
  {Returned(Handle(pool))} \cup {Thrown(e) : e \in AsyncThrown}
AsyncGenOutcomes ==
  {Returned(Str(G_USERS)), Returned(Str(G_DELETE))} \cup {Thrown(e) : e \in AsyncThrown}
AsyncDbOutcomes == {Returned(R_ONE)} \cup {Thrown(e) : e \in AsyncThrown}

\* The options of the repository's tests, options without a database, options
\* without an API key, and a configuration that lacks a required field.
TEST_URL == <<"s", "q", "l", "i", "t", "e", ":", "/", "/", "t", "e", "s", "t", ".", "d", "b">>
NoEnv == [GOOGLE_API_KEY |-> Undefined, DATABASE_URL |-> Undefined, DB_TYPE |-> Undefined]
NoOptions ==
  [k |-> "object", googleApiKey |-> Undefined, databaseUrl |-> Undefined,
   dbType |-> Undefined, dbConfig |-> Undefined]
AsyncOptions ==
  {[NoOptions EXCEPT !.googleApiKey = Str(<<"test-api-key">>), !.databaseUrl = Str(TEST_URL)],
   [NoOptions EXCEPT !.googleApiKey = Str(<<"test-api-key">>)],
   [NoOptions EXCEPT !.databaseUrl = Str(TEST_URL)],
   [NoOptions EXCEPT !.dbType = Str(<<"oracle">>), !.databaseUrl = Str(TEST_URL)],
   [NoOptions EXCEPT !.googleApiKey = Str(<<"test-api-key">>),
                     !.dbType = Str(<<"postgresql">>),
                     !.dbConfig = [FullConfig EXCEPT !.password = Undefined]]}

InitAsync ==
  /\ Unconstructed
  /\ CmIdle
  /\ NoRuns
  /\ input \in [options : AsyncOptions, env : {NoEnv}]
  /\ output = None

\* initialize calls createSafeConnection: the instance is not initialized and
\* it has a connection string, or a configuration that validateDatabaseConfig
\* accepts.
AttemptsConnection(params, type) ==
  /\ Truthy(params)
  /\ \/ Truthy(params.databaseUrl)
     \/ /\ Truthy(params.dbConfig)
        /\ Len(MissingVars(type, params.dbConfig)) = 0

\* A tier outcome for an initialize that calls no tier.
NoTier == Thrown(Err(<<"no connection attempted">>))

\* The QueryResult of a call of query, or the outcome of the ChainResult that
\* execute builds from it.
QueryOutcome(op, qr) ==
  IF op = "query" THEN Returned(qr)
  ELSE Returned([success |-> qr.success,
                 error |-> IF qr.success THEN Undefined
                           ELSE Str(SqlGenerationOperation(qr).value.message)])

\* A failure of initialize: query catches it, the other methods throw it.
InitFailure(op, e) ==
  IF op = "query" THEN Returned(QueryFailure(e)) ELSE Thrown(e)

Settled(run, outcome) == [run EXCEPT !.pc = "done", !.result = outcome]

\* query after initialize: the db check, then getSchemaInfo up to `await
\* this.db.raw(...)`.  Gives the call and the events after this piece.
EnterQuery(r, run) ==
  IF ~Truthy(db)
    THEN [run |-> Settled(run, QueryOutcome(run.op,
                     QueryFailure(Err(<<"Database not initialized">>)))),
          events |-> events]
    ELSE [run |-> [run EXCEPT !.pc = "schema"],
          events |-> Append(events, Event(r, "raw", db.id))]

\* processQuery after initialize: the queryChain check, execute with its
\* validation step, then query.
EnterPipeline(r, run, chain) ==
  IF ~Truthy(chain)
    THEN [run |-> Settled(run, Thrown(Err(<<"Query chain not initialized">>))),
          events |-> events]
  ELSE IF validateInput(run.question).thrown
    THEN [run |-> Settled(run, Returned([success |-> FALSE,
                     error |-> Str(validateInput(run.question).value.message)])),
          events |-> events]
  ELSE EnterQuery(r, run)

\* What follows initialize in the method that called it.
AfterInitialize(r, run, chain) ==
  CASE run.op = "query" -> EnterQuery(r, run)
    [] run.op = "processQuery" -> EnterPipeline(r, run, chain)
    [] OTHER -> [run |-> Settled(run, Returned(Undefined)), events |-> events]

\* initialize up to `await connectionManager.createSafeConnection(url)`.
EnterInitialize(r, run) ==
  IF AttemptsConnection(initParams, dbType)
    THEN [run |-> [run EXCEPT !.pc = "connecting"],
          events |-> Append(events, Event(r, "connect", 0))]
    ELSE [run |-> Settled(run, InitFailure(run.op,
                     initialize(initParams, dbType, NoTier, NoTier, NoTier).value)),
          events |-> events]

callVars == <<now, nCalls, pc, entry, question, exec, sqlQuery, qres, calls, result>>

\* A public method is called: its code up to the first await of a collaborator.
StartCall(op, q) ==
  /\ Constructed
  /\ LET r == Len(runs) + 1
         next == IF op = "initialize" \/ Truthy(initParams)
                   THEN EnterInitialize(r, Run(op, q))
                   ELSE AfterInitialize(r, Run(op, q), queryChain)
     IN /\ runs' = Append(runs, next.run)
        /\ events' = next.events
  /\ UNCHANGED <<inst, callVars, cm, fn>>

StartInitialize ==
  /\ Len(runs) < MaxRuns
  /\ StartCall("initialize", << >>)

\* query does not look at the question before the generation service does.
StartQuery ==
  /\ Len(runs) < MaxRuns
  /\ StartCall("query", Q_SALAIRE)

StartProcessQuery ==
  /\ Len(runs) < MaxRuns
  /\ \E q \in AsyncQuestions : StartCall("processQuery", q)

\* disconnect up to `await this.db.destroy()`
CallOfDisconnect ==
  /\ Constructed
  /\ LET r == Len(runs) + 1
         run == Run("disconnect", << >>)
     IN IF Truthy(db)
          THEN /\ runs' = Append(runs, [run EXCEPT !.pc = "destroying"])
               /\ events' = Append(events, Event(r, "destroy", db.id))
               /\ destroyed' = destroyed + 1
          ELSE /\ runs' = Append(runs, Settled(run, Returned(Undefined)))
               /\ UNCHANGED <<events, destroyed>>
  /\ UNCHANGED <<db, initParams, queryChain, dbType, callVars, cm, fn>>

StartDisconnect ==
  /\ Len(runs) < MaxRuns
  /\ CallOfDisconnect

\* disconnect after destroy() settled
Destroyed ==
  \E r \in 1..Len(runs) :
    /\ runs[r].pc = "destroying"
    /\ \E o \in {Returned(Undefined)} \cup {Thrown(e) : e \in AsyncThrown} :
         /\ runs' = [runs EXCEPT ![r] = Settled(runs[r], o)]
         /\ db' = IF o.thrown THEN db ELSE AfterDestroy(db)
    /\ UNCHANGED <<initParams, queryChain, dbType, destroyed, events, callVars,
                   cm, fn>>

\* createSafeConnection settled: initializeWithUrl stores the handle or
\* throws, and initialize wraps what it throws.  The parameters are those
\* initialize read when it was called, the ones the constructor stored.
Connect ==
  \E r \in 1..Len(runs) :
    /\ runs[r].pc = "connecting"
    /\ \E o1 \in AsyncTierOutcomes("standard"),
          o2 \in AsyncTierOutcomes("restricted"),
          o3 \in AsyncTierOutcomes("restricted") :
         LET made == initialize(output.value.initParams, dbType, o1, o2, o3)
             n == 1 + Cardinality({i \in 1..Len(events) :
                                     events[i].op = "established"})
         IN IF made.thrown
              THEN /\ runs' = [runs EXCEPT
                                 ![r] = Settled(runs[r],
                                          InitFailure(runs[r].op, made.value))]
                   /\ UNCHANGED <<db, events>>
              ELSE /\ db' = Established(made.value, n)
                   /\ events' = Append(events, Event(r, "established", n))
                   /\ runs' = [runs EXCEPT ![r].pc = "connected"]
    /\ UNCHANGED <<initParams, queryChain, dbType, destroyed, callVars, cm, fn>>

\* initialize after initializeWithUrl returned: the chain is built and the
\* parameters are cleared; then the method that called initialize goes on.
FinishInitialize ==
  \E r \in 1..Len(runs) :
    /\ runs[r].pc = "connected"
    /\ queryChain' = TheChain
    /\ initParams' = Undefined
    /\ LET next == AfterInitialize(r, runs[r], TheChain)
       IN /\ runs' = [runs EXCEPT ![r] = next.run]
          /\ events' = next.events
    /\ UNCHANGED <<db, dbType, destroyed, callVars, cm, fn>>

\* getSchemaInfo after db.raw settled, then generateSQLQuery up to
\* `await this.model.generateContent(prompt)`
Schema ==
  \E r \in 1..Len(runs) :
    /\ runs[r].pc = "schema"
    /\ \E o \in {Returned(Arr(<< >>))} \cup {Thrown(e) : e \in AsyncThrown} :
         runs' = [runs EXCEPT ![r] =
                    IF o.thrown
                      THEN Settled(runs[r], QueryOutcome(runs[r].op,
                             QueryFailure(Err(<<"Failed to fetch database schema">>))))
                      ELSE [runs[r] EXCEPT !.pc = "generate"]]
    /\ UNCHANGED <<inst, events, callVars, cm, fn>>

\* generateSQLQuery after the service answered, then `await this.db.raw(sqlQuery)`
Generate ==
  \E r \in 1..Len(runs) :
    /\ runs[r].pc = "generate"
    /\ \E o \in AsyncGenOutcomes :
         LET g == IF o.thrown THEN o ELSE generateSQLQuery(dbType, o.value.v)
         IN IF g.thrown
              THEN /\ runs' = [runs EXCEPT ![r] =
                                 Settled(runs[r], QueryOutcome(runs[r].op,
                                                    QueryFailure(g.value)))]
                   /\ UNCHANGED events
            ELSE IF ~Truthy(db)
              THEN /\ runs' = [runs EXCEPT ![r] =
                                 Settled(runs[r], QueryOutcome(runs[r].op,
                                   QueryFailure(Err(<<"Cannot read properties of null (reading 'raw')">>))))]
                   /\ UNCHANGED events
            ELSE /\ runs' = [runs EXCEPT ![r].pc = "execute",
                                         ![r].sqlQuery = g.value.v]
                 /\ events' = Append(events, Event(r, "raw", db.id))
    /\ UNCHANGED <<inst, callVars, cm, fn>>

\* query after db.raw(sqlQuery) settled
Execute ==
  \E r \in 1..Len(runs) :
    /\ runs[r].pc = "execute"
    /\ \E o \in AsyncDbOutcomes :
         runs' = [runs EXCEPT ![r] =
                    Settled(runs[r], QueryOutcome(runs[r].op,
                      IF o.thrown THEN QueryFailure(o.value)
                                  ELSE QuerySuccess(o.value, runs[r].sqlQuery)))]
    /\ UNCHANGED <<inst, events, callVars, cm, fn>>

NextAsync ==
  \/ Construct
  \/ StartInitialize
  \/ StartQuery
  \/ StartProcessQuery
  \/ StartDisconnect
  \/ Connect
  \/ FinishInitialize
  \/ Schema
  \/ Generate
  \/ Execute
  \/ Destroyed

SpecAsync == InitAsync /\ [][NextAsync]_vars

(***************************************************************************)
(* The calls that open and close the connection, initialize and            *)
(* disconnect, on their own: one after another and concurrently.           *)
(***************************************************************************)
LifecycleInitialize ==
  /\ Len(runs) < MaxLifecycleRuns
  /\ StartCall("initialize", << >>)

LifecycleDisconnect ==
  /\ Len(runs) < MaxLifecycleRuns
  /\ CallOfDisconnect

NextLifecycle ==
  \/ Construct
  \/ LifecycleInitialize
  \/ LifecycleDisconnect
  \/ Connect
  \/ FinishInitialize
  \/ Destroyed

SpecLifecycle == InitAsync /\ [][NextLifecycle]_vars

(***************************************************************************)
(* Vocabulary of the properties of concurrent calls.                       *)
(***************************************************************************)
\* The positions of the events of one kind.
EventsOf(op) == {i \in 1..Len(events) : events[i].op = op}

\* The call has returned normally.
ReturnedFrom(r) == runs[r].pc = "done" /\ ~runs[r].result.thrown

C25_DestroyAtMostOncePerHandle ==
  \A i, j \in EventsOf("destroy") :
    events[i].handle = events[j].handle => i = j

(***************************************************************************)
(* C26.  No two pipeline executions on one SQLAssistant interleave their   *)
(* access to its handle: no database round-trip of a processQuery call     *)
(* falls between the first and the last round-trip of another processQuery *)
(* call.                                                                   *)
(***************************************************************************)
C26_PipelineRunsDoNotInterleave ==
  ~ \E i, j, k \in EventsOf("raw") :
      /\ i < j
      /\ j < k
      /\ events[i].run = events[k].run
      /\ events[j].run # events[i].run
      /\ runs[events[i].run].op = "processQuery"
      /\ runs[events[j].run].op = "processQuery"

(***************************************************************************)
(* C27.  Connection resolution succeeds at most once per instance: over    *)
(* any sequence or interleaving of initialize, query and processQuery      *)
(* calls at most one handle is ever established, and the handle stored in  *)
(* the instance is never replaced by another one.                          *)
(***************************************************************************)
C27_OneHandlePerInstance ==
  /\ Cardinality(EventsOf("established")) <= 1
  /\ Truthy(db) => db.id = 1

(***************************************************************************)
(* C29.  Configuration errors are raised before any connection attempt:    *)
(* the constructor without an API credential fails with 'Google API key is *)
(* required' before it detects the dialect, and initialize on an instance  *)
(* that has neither a connection string nor a dbConfig fails with a        *)
(* message that contains 'Either databaseUrl or dbConfig is required'      *)
(* without a call of createSafeConnection.                                 *)
(***************************************************************************)
C29_ConfigurationErrorsComeFirst ==
  /\ (/\ output # None
      /\ ~Truthy(DefaultTo(input.options.googleApiKey, input.env.GOOGLE_API_KEY)))
       => /\ output.thrown
          /\ output.value = Err(MsgApiKeyRequired)
          /\ output.detection = None
  /\ \A r \in 1..Len(runs) :
       (/\ runs[r].op = "initialize"
        /\ ~Truthy(output.value.initParams.databaseUrl)
        /\ ~Truthy(output.value.initParams.dbConfig))
         => /\ runs[r].pc = "done"
            /\ runs[r].result.thrown
            /\ Includes(runs[r].result.value.message, MsgNoConfig)
            /\ EventsOf("connect") = {}
            /\ EventsOf("established") = {}
            /\ db = Null

\* The instance of the repository's test without database configuration.
C29_Witness ==
  /\ Constructed
  /\ input.options.googleApiKey = Str(<<"test-api-key">>)
  /\ initParams.k = "object"
  /\ initParams.databaseUrl = Undefined
  /\ initParams.dbConfig = Undefined
  /\ Len(runs) >= 1
  /\ runs[1].op = "initialize"
  /\ runs[1].result = Thrown(Err(MsgInitFailed \o MsgNoConfig))
  /\ events = << >>

(***************************************************************************)
(* C28.  SQLAssistant.query never throws: every failure (of the            *)
(* initialization or the connection, a missing handle, a failure of the    *)
(* schema introspection or of the generation service, a rejected           *)
(* statement, an execution error) is returned as a QueryResult with        *)
(* success=false, a non-empty error message, query undefined and no data;  *)
(* a result with success=true carries the statement and the data that      *)
(* db.raw returned for it.  Checked under Spec, on every call of query,    *)
(* made by the caller or by the pipeline.                                  *)
(***************************************************************************)
C28_QueryNeverThrows ==
  /\ (pc = "done" /\ entry = "query") => ~result.thrown
  /\ qres # None
       => /\ ~qres.success
               => /\ qres.error.k = "string"
                  /\ Len(qres.error.v) > 0
                  /\ qres.query = Undefined
                  /\ qres.data = Undefined
          /\ qres.success
               => /\ qres.error = Undefined
                  /\ qres.query = Str(sqlQuery)
                  /\ \E i \in 1..Len(calls) :
                       /\ calls[i].op = "raw"
                       /\ calls[i].arg = sqlQuery
                       /\ ~calls[i].ret.thrown
                       /\ qres.data = calls[i].ret.value

(***************************************************************************)
(* QueryChain.validateInput as a function of the question alone: the       *)
(* argument is a head (a phrase of the denylist, a near miss, a harmless   *)
(* question, blanks or nothing) filled up to a length around the limit.    *)
(***************************************************************************)
\* head followed by copies of c up to n characters; head itself when it is
\* already that long.
PadTo(head, c, n) ==
  IF n <= Len(head) THEN head
  ELSE head \o [i \in 1..(n - Len(head)) |-> c]

QuestionHeads ==
  { <<" ">>, <<"D", "R", "O", "P", " ", "T", "A", "B", "L", "E", " ", "u", "s", "e", "r", "s">>, <<"d", "R", "o", "P", " ", " ", "t", "A", "b", "L", "e", " ", "u", "s", "e", "r", "s">>, <<"d", "r", "o", "p", "t", "a", "b", "l", "e", " ", "u", "s", "e", "r", "s">>,
    <<"d", "r", "o", "p", " ", "t", "h", "e", " ", "t", "a", "b", "l", "e">>, <<"P", "l", "e", "a", "s", "e", " ", "d", "e", "l", "e", "t", "e", " ", " ", "f", "r", "o", "m", " ", "x">>, <<"d", "e", "l", "e", "t", "e", " ", "r", "o", "w", "s", " ", "f", "r", "o", "m", " ", "x">>,
    <<"u", "p", "d", "a", "t", "e">> \o <<"\t">> \o <<"u", "s", "e", "r", "s", " ", "n", "o", "w", " ", "s", "e", "t">>, <<"u", "p", "d", "a", "t", "e", " ", "u", "s", "e", "r", "s">> \o <<"\n">> \o <<"s", "e", "t", " ", "x">>,
    <<"u", "p", "d", "a", "t", "e">> \o <<"\n">> \o <<"u", "s", "e", "r", "s", " ", "s", "e", "t", " ", "x">>, <<"u", "p", "d", "a", "t", "e", "s", "e", "t">>,
    <<"I", "N", "S", "E", "R", "T", " ", "I", "N", "T", "O", " ", "t">>, <<"A", "l", "t", "e", "r", " ", "T", "a", "b", "l", "e", " ", "t">>, <<"c", "r", "e", "a", "t", "e">> \o <<"\n">> \o <<"t", "a", "b", "l", "e", " ", "t">>,
    <<"t", "r", "u", "n", "c", "a", "t", "e", "d">>, <<"T", "R", "U", "N", "C", "A", "T", "E", " ", "t">>, <<"d", "r", "o", "p", " ", "t", "a", "b", "l", "e", " ", "t", ";", " ", "d", "e", "l", "e", "t", "e", " ", "f", "r", "o", "m", " ", "t">>,
    <<"l", "i", "s", "t", " ", "u", "s", "e", "r", "s">>, <<"s", "e", "l", "e", "c", "t", " ", "t", "h", "e", " ", "l", "a", "t", "e", "s", "t", " ", "o", "r", "d", "e", "r", "s">> }

\* Lengths a head is filled up to: 0 leaves the head as it is.
QuestionLengths ==
  {0, MaxQuestionLength - 1, MaxQuestionLength, MaxQuestionLength + 1}

ValidateInputs ==
  {Str(PadTo(h, "a", n)) : h \in QuestionHeads, n \in QuestionLengths}
    \cup {Str(PadTo(<< >>, c, n)) : c \in WhiteSpace,
                                   n \in QuestionLengths}

InitValidate ==
  /\ AssistantUncalled
  /\ CmIdle
  /\ NoRuns
  /\ input \in ValidateInputs
  /\ output = None

\* QueryChain.validateInput({question: input})
ApplyValidateInput ==
  /\ input # None
  /\ output = None
  /\ output' = validateInput(input.v)
  /\ UNCHANGED <<assistant, cm, conc, input>>

NextValidate == ApplyValidateInput

SpecValidate == InitValidate /\ [][NextValidate]_vars

(***************************************************************************)
(* Vocabulary of the properties of validateInput.                          *)
(***************************************************************************)
\* The word stands in the text at position i, whatever the case of letters.
WordAt(text, word, i) ==
  /\ i >= 1
  /\ i + Len(word) - 1 <= Len(text)
  /\ \A j \in 1..Len(word) : LowerChar(text[i + j - 1]) = word[j]

\* first, then one or more white-space characters, then second.
HasPhrase(text, first, second) ==
  \E i \in 1..Len(text) :
    /\ WordAt(text, first, i)
    /\ \E j \in (i + Len(first) + 1)..Len(text) :
         /\ WordAt(text, second, j)
         /\ \A m \in (i + Len(first))..(j - 1) : text[m] \in WhiteSpace

\* "update", white space, then "set" later on the line that begins after
\* some of that white space.
HasUpdateSet(text) ==
  \E i \in 1..Len(text) :
    /\ WordAt(text, <<"u", "p", "d", "a", "t", "e">>, i)
    /\ \E j \in (i + Len(<<"u", "p", "d", "a", "t", "e">>) + 1)..Len(text) :
         /\ WordAt(text, <<"s", "e", "t">>, j)
         /\ \E b \in (i + Len(<<"u", "p", "d", "a", "t", "e">>) + 1)..j :
              /\ \A m \in (i + Len(<<"u", "p", "d", "a", "t", "e">>))..(b - 1) : text[m] \in WhiteSpace
              /\ \A m \in b..(j - 1) : text[m] \notin LineTerminators

\* The question holds one of the seven forbidden phrases.
Denylisted(text) ==
  \/ HasPhrase(text, <<"d", "r", "o", "p">>, <<"t", "a", "b", "l", "e">>)
  \/ HasPhrase(text, <<"d", "e", "l", "e", "t", "e">>, <<"f", "r", "o", "m">>)
  \/ HasUpdateSet(text)
  \/ HasPhrase(text, <<"i", "n", "s", "e", "r", "t">>, <<"i", "n", "t", "o">>)
  \/ HasPhrase(text, <<"a", "l", "t", "e", "r">>, <<"t", "a", "b", "l", "e">>)
  \/ HasPhrase(text, <<"c", "r", "e", "a", "t", "e">>, <<"t", "a", "b", "l", "e">>)
  \/ HasWordAnyCase(text, <<"t", "r", "u", "n", "c", "a", "t", "e">>)

\* The question is empty or holds white space only.
BlankQuestion(text) == \A i \in 1..Len(text) : text[i] \in WhiteSpace

\* C30: validateInput reports the first failing check in the order blank,
\* longer than 1000 characters, denylist: a blank question is rejected as
\* empty whatever its length, a question longer than 1000 characters as too
\* long even when it holds a forbidden phrase, a question of at most 1000
\* characters that holds one or several forbidden phrases in any letter
\* case with the one 'not authorized' reason, and every other question of
\* at most 1000 characters is valid.
C30_ChecksInOrder ==
  output # None =>
    LET q == input.v
    IN /\ BlankQuestion(q) => output = Thrown(Err(MsgEmptyQuestion))
       /\ (~BlankQuestion(q) /\ Len(q) > MaxQuestionLength)
            => output = Thrown(Err(MsgTooLong))
       /\ (~BlankQuestion(q) /\ Len(q) <= MaxQuestionLength /\ Denylisted(q))
            => output = Thrown(Err(MsgNotAuthorized))
       /\ (~BlankQuestion(q) /\ Len(q) <= MaxQuestionLength /\ ~Denylisted(q))
            => output = Returned(Obj(<<"valid">>, <<Bool(TRUE)>>))

\* An over-long question that also holds forbidden phrases has been
\* rejected as too long.
C30_Witness ==
  /\ output = Thrown(Err(MsgTooLong))
  /\ Len(input.v) = MaxQuestionLength + 1
  /\ Denylisted(input.v)

(***************************************************************************)
(* SQLAssistant.parseSchemaResult as a function of the value db.raw gave   *)
(* for the schema query.                                                   *)
(***************************************************************************)
\* `a === b` for the values that occur in schema rows.
StrictEquals(a, b) ==
  /\ a.k = b.k
  /\ \/ a.k \in {"undefined", "null"}
     \/ a.k \in {"string", "number", "boolean"} /\ a.v = b.v

\* typeof x === "object"
TypeofObject(x) == x.k \in {"object", "array", "null"}

\* The rows parseSchemaResult iterates, or the TypeError of `for ... of` on
\* an object that is no array.
SchemaRows(res) ==
  IF res.k = "array" THEN Returned(res.v)
  ELSE IF Truthy(res) /\ TypeofObject(res)
    THEN IF Truthy(GetProp(res, "rows")) /\ GetProp(res, "rows").k = "array"
           THEN Returned(GetProp(res, "rows").v)
         ELSE IF Truthy(GetProp(res, "0")) /\ GetProp(res, "0").k = "array"
           THEN Thrown([k |-> "TypeError", message |-> <<"rows is not iterable">>])
         ELSE Returned(<<res>>)
  ELSE Returned(<< >>)

\* The column entry pushed for a row.
SchemaColumn(row) ==
  [name |-> OrElse(GetProp(row, "column_name"), GetProp(row, "name")),
   type |-> OrElse(GetProp(row, "data_type"), GetProp(row, "type")),
   nullable |->
     LET isNullable == OrElse(GetProp(row, "is_nullable"), GetProp(row, "notnull"))
     IN \/ StrictEquals(isNullable, Str(<<"YES">>))
        \/ StrictEquals(isNullable, Num(0))
        \/ StrictEquals(isNullable, Bool(FALSE))]

\* const tableName = rowObj.table_name || rowObj.tbl_name
SchemaTableName(row) == OrElse(GetProp(row, "table_name"), GetProp(row, "tbl_name"))

\* The row is skipped by one of the two `continue`.
SkippedRow(row) ==
  \/ ~Truthy(row)
  \/ ~TypeofObject(row)
  \/ ~Truthy(SchemaTableName(row))
  \/ ~Truthy(SchemaColumn(row).name)

\* tableMap after the row: the entries are kept in insertion order.
AddToTableMap(tableMap, row) ==
  IF SkippedRow(row) THEN tableMap
  ELSE LET name == SchemaTableName(row)
           known == \E i \in 1..Len(tableMap) : StrictEquals(tableMap[i].name, name)
           withTable == IF known THEN tableMap
                        ELSE Append(tableMap, [name |-> name, columns |-> << >>])
       IN [i \in 1..Len(withTable) |->
             IF StrictEquals(withTable[i].name, name)
               THEN [withTable[i] EXCEPT !.columns = Append(@, SchemaColumn(row))]
               ELSE withTable[i]]

RECURSIVE TableMapOf(_, _)
TableMapOf(rows, tableMap) ==
  IF Len(rows) = 0 THEN tableMap
  ELSE TableMapOf(Tail(rows), AddToTableMap(tableMap, Head(rows)))

parseSchemaResult(res) ==
  IF SchemaRows(res).thrown THEN SchemaRows(res)
  ELSE Returned([k |-> "SchemaInfo",
                 tables |-> TableMapOf(SchemaRows(res).value, << >>)])

\* Raw nullability values of a schema row; None stands for a field the row
\* does not have.
NullabilityValues ==
  {None, Str(<<"YES">>), Str(<<"NO">>), Num(0), Num(1), Bool(FALSE),
   Bool(TRUE), Null}
NotnullValues == {None, Num(0), Num(1)}

\* A row of the schema query on the table, with the optional fields left
\* out when their value is None.
SchemaRow(table, column, isNullable, notnull) ==
  LET base == <<"table_name", "column_name", "data_type">>
      vals == <<Str(<<table>>), Str(<<column>>), Str(<<"INTEGER">>)>>
      k1 == IF isNullable = None THEN base ELSE Append(base, "is_nullable")
      v1 == IF isNullable = None THEN vals ELSE Append(vals, isNullable)
      k2 == IF notnull = None THEN k1 ELSE Append(k1, "notnull")
      v2 == IF notnull = None THEN v1 ELSE Append(v1, notnull)
  IN Obj(k2, v2)

\* A row under the names of sqlite_master and pragma_table_info.
PragmaRow == Obj(<<"tbl_name", "name", "type", "notnull">>,
                 <<Str(<<"users">>), Str(<<"email">>), Str(<<"TEXT">>), Num(0)>>)

SchemaRowChoices ==
  {SchemaRow("users", "id", n, m) : n \in NullabilityValues, m \in NotnullValues}

SchemaResults ==
  {Arr(<<r>>) : r \in SchemaRowChoices}
    \cup {Obj(<<"rows">>, <<Arr(<<r, PragmaRow>>)>>) : r \in SchemaRowChoices}
    \cup {Arr(<<SchemaRow("orders", "total", Str(<<"YES">>), None), r>>) :
            r \in SchemaRowChoices}
    \cup {Arr(<< >>), Undefined, Null, Str(<<"rows">>), Arr(<<Null, PragmaRow>>),
          Obj(<<"0">>, <<Arr(<<PragmaRow>>)>>),
          Obj(<<"column_name">>, <<Str(<<"id">>)>>), PragmaRow}

InitSchema ==
  /\ AssistantUncalled
  /\ CmIdle
  /\ NoRuns
  /\ input \in SchemaResults
  /\ output = None

\* SQLAssistant.parseSchemaResult(input)
ApplyParseSchemaResult ==
  /\ input # None
  /\ output = None
  /\ output' = parseSchemaResult(input)
  /\ UNCHANGED <<assistant, cm, conc, input>>

NextSchema == ApplyParseSchemaResult

SpecSchema == InitSchema /\ [][NextSchema]_vars

(***************************************************************************)
(* Vocabulary of the properties of parseSchemaResult.                      *)
(***************************************************************************)
\* The rows of a result given as an array or under `rows`.
RowsOf(res) ==
  IF res.k = "array" THEN res.v
  ELSE IF res.k = "object" /\ GetProp(res, "rows").k = "array"
    THEN GetProp(res, "rows").v
  ELSE << >>

HasField(row, field) == \E i \in 1..Len(row.keys) : row.keys[i] = field

\* The raw nullability value of a row: its is_nullable field, or its notnull
\* field when it has no is_nullable.
RawNullability(row) ==
  IF HasField(row, "is_nullable") THEN GetProp(row, "is_nullable")
  ELSE GetProp(row, "notnull")

CountsAsNullable(value) ==
  \/ StrictEquals(value, Str(<<"YES">>))
  \/ StrictEquals(value, Num(0))
  \/ StrictEquals(value, Bool(FALSE))

\* The result reports a column for the row with the given nullability.
Reported(row, nullable) ==
  \E i \in 1..Len(output.value.tables) :
    /\ StrictEquals(output.value.tables[i].name, GetProp(row, "table_name"))
    /\ \E j \in 1..Len(output.value.tables[i].columns) :
         /\ StrictEquals(output.value.tables[i].columns[j].name,
                         GetProp(row, "column_name"))
         /\ output.value.tables[i].columns[j].nullable = nullable

\* The rows of the result that carry table_name and column_name.
NamedRows ==
  {i \in 1..Len(RowsOf(input)) :
     /\ RowsOf(input)[i].k = "object"
     /\ HasField(RowsOf(input)[i], "table_name")
     /\ HasField(RowsOf(input)[i], "column_name")}

\* C31: every schema row is reported nullable exactly when its raw
\* nullability value is "YES", 0 or false.
C31_NullableExactlyWhenYesZeroFalse ==
  (output # None /\ ~output.thrown) =>
    \A i \in NamedRows :
      Reported(RowsOf(input)[i], CountsAsNullable(RawNullability(RowsOf(input)[i])))

(***************************************************************************)
(* Interleaved calls of QueryChain.execute and of                          *)
(* ConnectionManager.createSafeConnection on one object each.  A call has  *)
(* a frame in `runs` with its locals; its pieces between two awaits are    *)
(* atomic.                                                                 *)
(***************************************************************************)
\* Calls in flight or returned, and the last value of the clock they read.
MaxFrames == 2
MaxFrameClock == 6

\* A local list kept in one place for all the calls.
LocalsOf_Shared(r) == 1

\* The frame that holds `const steps` / `const diagnostics` of call r: the
\* lists are created by the call itself.
LocalsOf(r) == r

FrameQuestions == {Q_SALAIRE, <<"c", "o", "m", "b", "i", "e", "n", " ", "?">>}
FrameConnectionStrings == {TEST_URL}
FrameDialect == "postgresql"

\* What assistant.query gives the sql_generation step.
FrameQueryResults ==
  {QuerySuccess(R_ONE, G_USERS), QueryFailure(Err(<<"F", "a", "i", "l", "e", "d", " ", "t", "o", " ", "f", "e", "t", "c", "h", " ", "d", "a", "t", "a", "b", "a", "s", "e", " ", "s", "c", "h", "e", "m", "a">>))}

\* What the liveness check of a tier gives.
FrameLiveness ==
  {Returned(Undefined), Thrown(Err(<<"p", "e", "r", "m", "i", "s", "s", "i", "o", "n", " ", "d", "e", "n", "i", "e", "d", " ", "f", "o", "r", " ", "s", "c", "h", "e", "m", "a">>)),
   Thrown(Err(<<"c", "o", "n", "n", "e", "c", "t", "i", "o", "n", " ", "r", "e", "f", "u", "s", "e", "d">>))}

\* Date.now() in a piece of a call: the pieces are one tick apart until the
\* clock reaches its bound.
FrameReads == {IF now < MaxFrameClock THEN now + 1 ELSE now}

\* What the calls of the two objects leave alone.
frameRest == <<inst, nCalls, pc, entry, question, exec, sqlQuery, qres, calls,
               result, cm, fn, events>>

NewFrame(obj, arg) ==
  \* `during` notes the calls that were running when this one started.
  [obj |-> obj, arg |-> arg, pc |-> "running", stage |-> "none",
   during |-> {}, startTime |-> 0, stepStart |-> 0, endTime |-> 0,
   schema |-> None, gen |-> None, attempts |-> << >>, list |-> << >>, result |-> None]

\* The input executeStep receives for a stage of a run.
FrameStepInput(name, frame) ==
  CASE name = "validation" -> Obj(<<"question">>, <<Str(frame.arg)>>)
    [] name = "schema_analysis" -> Obj(<<"question">>, <<Str(frame.arg)>>)
    [] name = "sql_generation" ->
         Obj(<<"question", "schema">>, <<Str(frame.arg), frame.schema>>)
    [] name = "response_formatting" ->
         Obj(<<"question", "sqlQuery", "data", "dbType">>,
             <<Str(frame.arg), GetProp(frame.gen, "sqlQuery"),
               GetProp(frame.gen, "data"), Str(<<FrameDialect>>)>>)

\* The QueryStep executeStep returns.
FrameStep(name, stepInput, outcome, duration) ==
  IF outcome.thrown
    THEN [name |-> name, input |-> stepInput, output |-> Null,
          duration |-> duration, success |-> FALSE,
          error |-> Str(ErrorMessageOf(outcome.value))]
    ELSE [name |-> name, input |-> stepInput, output |-> outcome.value,
          duration |-> duration, success |-> TRUE, error |-> Undefined]

\* The outcomes of the operation of a stage.
FrameOperation(name, frame) ==
  CASE name = "validation" -> {validateInput(frame.arg)}
    [] name = "schema_analysis" ->
         {Returned(Obj(<<"schemaAvailable">>, <<Bool(TRUE)>>))}
    [] name = "sql_generation" ->
         {SqlGenerationOperation(qr) : qr \in FrameQueryResults}
    [] name = "response_formatting" ->
         {formatResponse(frame.arg, ToStringValue(GetProp(frame.gen, "sqlQuery")),
                         GetProp(frame.gen, "data"), FrameDialect)}

FrameFailure(frame, list, errorMessage, executionTime) ==
  [success |-> FALSE, question |-> frame.arg, sqlQuery |-> Str(<< >>),
   rawData |-> Null, formattedResponse |-> Str(<< >>),
   executionTime |-> executionTime, steps |-> list, error |-> Str(errorMessage)]

FrameSuccess(frame, list, formatted, executionTime) ==
  [success |-> TRUE, question |-> frame.arg,
   sqlQuery |-> GetProp(frame.gen, "sqlQuery"),
   rawData |-> GetProp(frame.gen, "data"), formattedResponse |-> formatted,
   executionTime |-> executionTime, steps |-> list, error |-> Undefined]

InitFrames ==
  /\ AssistantUncalled
  /\ CmIdle
  /\ FnIdle
  /\ NoRuns

\* execute(input) up to the await of the validation step.
StartExecute ==
  /\ Len(runs) < MaxFrames
  /\ \E q \in FrameQuestions, t \in FrameReads :
       LET r == Len(runs) + 1
           frame == [NewFrame("chain", q) EXCEPT
                       !.stage = "validation", !.startTime = t, !.stepStart = t,
                       !.during = {i \in 1..Len(runs) : runs[i].pc = "running"}]
           started == Append(runs, frame)
       IN /\ runs' = [started EXCEPT ![LocalsOf(r)].list = << >>]
          /\ now' = t
  /\ UNCHANGED frameRest

\* The operation of the running stage of call r settles: executeStep returns,
\* execute pushes the step, then throws into its catch block, returns, or
\* calls executeStep for the next stage.
ExecuteStage ==
  \E r \in 1..Len(runs) :
    /\ runs[r].obj = "chain"
    /\ runs[r].pc = "running"
    /\ \E outcome \in FrameOperation(runs[r].stage, runs[r]),
          t \in FrameReads :
         LET frame == runs[r]
             name == frame.stage
             step == FrameStep(name, FrameStepInput(name, frame), outcome,
                               t - frame.stepStart)
             pushed == PushStep(runs[LocalsOf(r)].list, step)
             kept == [frame EXCEPT
                        !.schema = IF name = "schema_analysis" THEN step.output ELSE @,
                        !.gen = IF name = "sql_generation" THEN step.output ELSE @]
         IN /\ now' = t
            /\ IF ~step.success /\ StageIsRequired(name)
                 THEN LET msg == FailureMessage(step)
                          list == PushStep(pushed, ErrorHandlingStep(msg))
                      IN runs' = [[runs EXCEPT ![LocalsOf(r)].list = list]
                                    EXCEPT ![r].pc = "done", ![r].endTime = t,
                                           ![r].result = Returned(
                                             FrameFailure(frame, list, msg,
                                                          t - frame.startTime))]
               ELSE IF name = "response_formatting"
                 THEN runs' = [[runs EXCEPT ![LocalsOf(r)].list = pushed]
                                 EXCEPT ![r].pc = "done", ![r].endTime = t,
                                        ![r].result = Returned(
                                          FrameSuccess(kept, pushed, step.output,
                                                       t - frame.startTime))]
               ELSE runs' = [[runs EXCEPT ![LocalsOf(r)].list = pushed]
                               EXCEPT ![r].stage = NextStage(name),
                                      ![r].stepStart = t,
                                      ![r].schema = kept.schema,
                                      ![r].gen = kept.gen]
    /\ UNCHANGED frameRest

\* createSafeConnection(connectionString) up to the await of the first tier.
StartConnection ==
  /\ Len(runs) < MaxFrames
  /\ \E connectionString \in FrameConnectionStrings :
       LET r == Len(runs) + 1
           frame == [NewFrame("cm", connectionString) EXCEPT
                       !.stage = "standard",
                       !.during = {i \in 1..Len(runs) : runs[i].pc = "running"}]
           started == Append(runs, frame)
       IN /\ runs' = [started EXCEPT ![LocalsOf(r)].list =
                        PushDiagnostics(<< >>, <<AnnounceEntry("standard")>>)]
  /\ UNCHANGED <<assistant, cm, fn, events>>

\* The tier of call r settles: its return, or its catch block up to the
\* await of the next tier.
ConnectionTier ==
  \E r \in 1..Len(runs) :
    /\ runs[r].obj = "cm"
    /\ runs[r].pc = "running"
    /\ \E live \in FrameLiveness :
         LET frame == runs[r]
             tier == frame.stage
             o == TryConnection(FrameDialect, frame.arg, tier # "standard", live,
                                Len(frame.attempts) + 1)
             attempts == Append(frame.attempts,
                           [tier |-> tier, restricted |-> tier # "standard",
                            ret |-> o])
             next == NextTier(tier, o.value)
             entries == IF ~o.thrown THEN <<SuccessEntry(tier)>>
                        ELSE FailureEntries(tier, o.value, next)
             list == PushDiagnostics(runs[LocalsOf(r)].list, entries)
             shared == [runs EXCEPT ![LocalsOf(r)].list = list]
         IN IF ~o.thrown
              THEN runs' = [shared EXCEPT
                              ![r].attempts = attempts, ![r].pc = "done",
                              ![r].result = Returned(SucceededConnection(attempts, list))]
            ELSE IF next = "none"
              THEN runs' = [shared EXCEPT
                              ![r].attempts = attempts, ![r].pc = "done",
                              ![r].result = Returned(FailedConnection(attempts, list))]
            ELSE runs' = [shared EXCEPT
                            ![r].attempts = attempts, ![r].stage = next]
    /\ UNCHANGED <<assistant, cm, fn, events>>

NextFrames ==
  \/ StartExecute
  \/ ExecuteStage
  \/ StartConnection
  \/ ConnectionTier

SpecFrames == InitFrames /\ [][NextFrames]_vars

(***************************************************************************)
(* Vocabulary of the properties of interleaved calls.                      *)
(***************************************************************************)
\* The calls of an object that have returned.
ReturnedCalls(obj) ==
  {r \in 1..Len(runs) : runs[r].obj = obj /\ runs[r].pc = "done"}

\* The names are the first stages in their order, closed by error_handling
\* when the run failed.
OneRunOfStages(list, failed) ==
  LET n == IF failed THEN Len(list) - 1 ELSE Len(list)
  IN /\ n >= 1
     /\ n <= Len(Stages)
     /\ \A i \in 1..n : list[i].name = Stages[i]
     /\ failed => list[Len(list)].name = "error_handling"
     /\ ~failed => n = Len(Stages)

\* The number of diagnostics a call with these attempts pushes: the first
\* announcement, one entry for a success and two for a failure.
RECURSIVE TrailLength(_)
TrailLength(attempts) ==
  IF Len(attempts) = 0 THEN 1
  ELSE TrailLength(Tail(attempts)) + (IF Head(attempts).ret.thrown THEN 2 ELSE 1)

\* C32: execute and createSafeConnection keep no state between calls.  When
\* calls are interleaved on one object, every ChainResult holds the question
\* of its own call, the stages of one run in order, each with the question
\* of its own call as input and a duration within its own execution time,
\* which is measured from its own start; every ConnectionResult holds one
\* first announcement and as many entries as its own attempts account for.
C32_CallsKeepNoState ==
  /\ \A r \in ReturnedCalls("chain") :
       LET res == runs[r].result.value
       IN /\ res.question = runs[r].arg
          /\ OneRunOfStages(res.steps, ~res.success)
          /\ \A i \in 1..Len(res.steps) :
               /\ res.steps[i].name # "error_handling"
                    => GetProp(res.steps[i].input, "question") = Str(runs[r].arg)
               /\ res.steps[i].duration <= res.executionTime
          /\ res.executionTime = runs[r].endTime - runs[r].startTime
  /\ \A r \in ReturnedCalls("cm") :
       LET res == runs[r].result.value
       IN /\ Len(res.diagnostics) = TrailLength(runs[r].attempts)
          /\ res.diagnostics[1] = D_STANDARD_TRY
          /\ \A i \in 2..Len(res.diagnostics) : res.diagnostics[i] # D_STANDARD_TRY

\* Two execute calls with different questions ran interleaved and returned,
\* and so did two createSafeConnection calls.
C32_Witness ==
  \/ /\ ReturnedCalls("chain") = {1, 2}
     /\ runs[1].arg # runs[2].arg
     /\ runs[1].result.value.success
     /\ runs[2].result.value.success
     /\ runs[2].during = {1}
     /\ runs[2].startTime > runs[1].startTime + 1
  \/ /\ ReturnedCalls("cm") = {1, 2}
     /\ runs[2].during = {1}
     /\ Len(runs[1].attempts) > 1
     /\ Len(runs[2].attempts) > 1

(***************************************************************************)
(* Vocabulary of the order of the collaborator calls of one call.          *)
(***************************************************************************)
\* The calls made on the database handle and on the generation service.
IsCollaboratorCall(call) == call.op \in {"raw", "generateContent"}
CollaboratorCalls(log) == SelectSeq(log, IsCollaboratorCall)

\* C33: in one query call, and so in one processQuery run, the collaborator
\* calls are at most three: the schema query, then the generation for the
\* question, then the execution of a statement that passed the SELECT
\* check.  A call is made only after the one before it returned normally,
\* none is made twice, and none is made after the call has ended.
C33_CollaboratorsInOrderOnce ==
  LET cc == CollaboratorCalls(calls)
  IN /\ Len(cc) <= 3
     /\ Len(cc) >= 1 => cc[1].op = "raw" /\ cc[1].arg = SchemaQuery
     /\ Len(cc) >= 2 => /\ ~cc[1].ret.thrown
                        /\ cc[2].op = "generateContent"
                        /\ cc[2].arg = question
     /\ Len(cc) >= 3 => /\ ~cc[2].ret.thrown
                        /\ cc[3].op = "raw"
                        /\ cc[3].arg = sqlQuery
                        /\ BeginsWith(ToLowerCase(cc[3].arg), <<"s", "e", "l", "e", "c", "t">>)
     /\ (pc = "done" /\ Len(cc) >= 1 /\ Len(cc) < 3 /\ qres # None)
          => ~qres.success

\* A processQuery run has ended after the three collaborator calls; another
\* has ended after a generation that failed.
C33_Witness ==
  /\ pc = "done"
  /\ entry = "processQuery"
  /\ Len(CollaboratorCalls(calls)) = 3
  /\ result.value.success

(***************************************************************************)
(* Vocabulary of the properties of the dialect linter.                     *)
(***************************************************************************)
\* The text begins with SELECT in some letter case.
IsSelect(text) == BeginsWith(ToLowerCase(SliceTo(text, 6)), <<"s", "e", "l", "e", "c", "t">>)

\* The linter has something to say about the statement under the dialect.
Flagged(type, statement) == Len(validateSQLSyntax(type, statement).errors) > 0

\* C34: the dialect linter never blocks.  Whenever the generation service
\* returned a text whose cleaned form begins with SELECT, query goes on to
\* execute exactly that cleaned form, whether validateSQLSyntax flags it
\* (ILIKE under sqlite) or not: the call has not failed at the generation,
\* and the statement passed to the handle is the cleaned text.
C34_LinterNeverBlocks ==
  \A i \in 1..Len(calls) :
    (/\ calls[i].op = "generateContent"
     /\ ~calls[i].ret.thrown)
      => LET cleaned == CleanQuery(calls[i].ret.value.v)
         IN IsSelect(cleaned)
              => /\ sqlQuery = cleaned
                 /\ i = Len(calls) => pc = "q_execute"
                 /\ (i < Len(calls) /\ calls[i + 1].op = "raw")
                      => calls[i + 1].arg = cleaned

\* A statement the linter flags has been executed.
C34_Witness ==
  /\ Len(calls) > 0
  /\ LastOf(calls).op = "raw"
  /\ LastOf(calls).arg # SchemaQuery
  /\ Flagged(dbType, LastOf(calls).arg)
  /\ qres # None
  /\ qres.success
  /\ qres.query = Str(LastOf(calls).arg)

(***************************************************************************)
(* Vocabulary of implicit initialization.                                  *)
(***************************************************************************)
\* The running call has touched the schema, the generation service or the
\* pipeline.
Touched(log) ==
  \E i \in 1..Len(log) : log[i].op \in {"raw", "generateContent", "executeStep"}

\* C35: explicit initialization is optional.  A query or processQuery call
\* touches the schema, the generation service or the pipeline only on an
\* instance whose initialization has completed (its parameters are cleared
\* and its query chain exists), so a call on a fresh instance runs
\* initialize first and stops there when it fails; a call on an instance
\* that is already initialized never enters initialize and leaves the
\* handle and the chain as they are.
C35_InitializationIsImplicit ==
  [][/\ (entry' \in {"query", "processQuery"} /\ Touched(calls'))
          => /\ ~Truthy(initParams')
             /\ Truthy(queryChain')
     /\ (entry' \in {"query", "processQuery"} /\ ~Truthy(initParams))
          => /\ pc' # "initialize"
             /\ db' = db
             /\ queryChain' = queryChain
             /\ initParams' = initParams]_vars

\* The first call on a fresh instance is a query; it has connected and then
\* fetched the schema and called the generation service.
C35_Witness ==
  /\ nCalls = 1
  /\ entry = "query"
  /\ Truthy(db)
  /\ ~Truthy(initParams)
  /\ Len(CollaboratorCalls(calls)) >= 2

(***************************************************************************)
(* Vocabulary of the scheme-prefix rule.                                   *)
(***************************************************************************)
\* The string begins with one of the three scheme prefixes as written.
HasSchemePrefix(uri) ==
  \/ BeginsWith(uri, <<"m", "y", "s", "q", "l", ":", "/", "/">>)
  \/ BeginsWith(uri, <<"p", "o", "s", "t", "g", "r", "e", "s", "q", "l", ":", "/", "/">>)
  \/ BeginsWith(uri, <<"s", "q", "l", "i", "t", "e", ":", "/", "/">>)

\* C36: the scheme-prefix rule never decides a detection.  Every string that
\* begins with mysql://, postgresql:// or sqlite:// holds a keyword and gets
\* the confidence of a keyword rule (0.9 or 1.0); detectFromUri returns
\* confidence 0.95 for no input, and every confidence it returns is one of
\* 0, 0.1, 0.8, 0.9 and 1.0.
C36_SchemePrefixNeverDecides ==
  output # None =>
    /\ output.confidence \in {0, 10, 80, 90, 100}
    /\ (input.k = "string" /\ HasSchemePrefix(input.v))
         => /\ output.confidence \in {90, 100}
            /\ \/ HasWordAnyCase(input.v, <<"s", "q", "l", "i", "t", "e">>)
               \/ HasWordAnyCase(input.v, <<"p", "o", "s", "t", "g", "r", "e", "s">>)
               \/ HasWordAnyCase(input.v, <<"m", "y", "s", "q", "l">>)

\* A mysql:// string that also names mariadb was decided by the mariadb
\* keyword.
C36_Witness ==
  /\ output # None
  /\ input.k = "string"
  /\ BeginsWith(input.v, <<"m", "y", "s", "q", "l", ":", "/", "/">>)
  /\ HasWordAnyCase(input.v, <<"m", "a", "r", "i", "a", "d", "b">>)
  /\ output.detectedType = "mariadb"
  /\ output.confidence = 100

(***************************************************************************)
(* Handles a createSafeConnection call leaves open.                        *)
(***************************************************************************)
\* The handles built during the call that are still open: the call invokes
\* destroy on none of them, so these are all the handles it built.
OpenHandles == cmHandles

\* C37: createSafeConnection leaves no handle behind other than the one it
\* returns: when it returns, exactly one handle built by it is open after a
\* success and none after a failure.
C37_NoHandleLeftBehind ==
  (CmReturned /\ ~cmResult.thrown)
    => OpenHandles = (IF CR.success THEN 1 ELSE 0)

(***************************************************************************)
(* C38.  The handle is never used after teardown has started: under any    *)
(* interleaving of query or processQuery with disconnect on one instance,  *)
(* no database round-trip (schema introspection or execution of generated  *)
(* SQL) is issued on a handle once disconnect has invoked destroy on it;   *)
(* a query started after a disconnect that tore the handle down has        *)
(* completed performs no database round-trip and returns a failure result  *)
(* instead of throwing.                                                    *)
(***************************************************************************)
\* A round-trip issued on a handle after destroy was invoked on it.
UsedAfterDestroy(i, j) ==
  /\ events[i].op = "destroy"
  /\ events[j].op = "raw"
  /\ events[j].handle = events[i].handle
  /\ i < j

\* A disconnect that invoked destroy has returned.
TornDown ==
  \E d \in 1..Len(runs) :
    /\ runs[d].op = "disconnect"
    /\ ReturnedFrom(d)
    /\ \E i \in EventsOf("destroy") : events[i].run = d

C38_NoUseAfterTeardown ==
  /\ [](\A i, j \in 1..Len(events) : ~UsedAfterDestroy(i, j))
  /\ [][\A r \in 1..Len(runs') :
          (/\ r > Len(runs)
           /\ runs'[r].op \in {"query", "processQuery"}
           /\ TornDown
           /\ db = Null)
            => /\ events' = events
               /\ runs'[r].pc = "done"
               /\ ~runs'[r].result.thrown
               /\ ~runs'[r].result.value.success]_vars

(***************************************************************************)
(* Calls of initialize, query and processQuery one after another on one    *)
(* instance, each with its connection resolution.                          *)
(***************************************************************************)
MaxRetryRuns == 2

\* The caller awaits each call before making the next one.
NoCallInFlight == \A r \in 1..Len(runs) : runs[r].pc = "done"

RetryInitialize ==
  /\ Len(runs) < MaxRetryRuns
  /\ NoCallInFlight
  /\ StartCall("initialize", << >>)

RetryQuery ==
  /\ Len(runs) < MaxRetryRuns
  /\ NoCallInFlight
  /\ StartCall("query", Q_SALAIRE)

RetryProcessQuery ==
  /\ Len(runs) < MaxRetryRuns
  /\ NoCallInFlight
  /\ \E q \in AsyncQuestions : StartCall("processQuery", q)

NextRetry ==
  \/ Construct
  \/ RetryInitialize
  \/ RetryQuery
  \/ RetryProcessQuery
  \/ Connect
  \/ FinishInitialize
  \/ Schema
  \/ Generate
  \/ Execute

SpecRetry == InitAsync /\ [][NextRetry]_vars

\* The message a finished call failed with: of the error it threw, or of the
\* failure result it returned.
MessageOfFailure(run) ==
  IF run.result.thrown THEN ErrorMessageOf(run.result.value)
  ELSE IF run.result.value = Undefined \/ run.result.value.success THEN << >>
  ELSE ToStringValue(run.result.value.error)

\* The message of an initialize whose connection resolution failed on the
\* tiers with these outcomes.
ResolutionFailureMessage(o1, o2, o3) ==
  LET failed == createSafeConnection(o1, o2, o3)
  IN MsgInitFailed \o <<"Failed to connect to database: ">>
       \o ErrorMessageOf(o3.value) \o <<"\n">>
       \o <<"Connection diagnostics:", "\n">>
       \o Join(failed.diagnostics, <<"\n">>)

\* The call ended because connection resolution failed on all tiers.
ResolutionFailed(r) ==
  /\ runs[r].pc = "done"
  /\ BeginsWith(MessageOfFailure(runs[r]),
                MsgInitFailed \o <<"Failed to connect to database: ">>)

\* The call invoked createSafeConnection.
AttemptedResolution(r) ==
  \E i \in EventsOf("connect") : events[i].run = r

(***************************************************************************)
(* C39.  A failed initialize leaves the instance uninitialized: when       *)
(* connection resolution fails on all tiers, initialize fails with a       *)
(* message that contains the resolver's last error and its diagnostics     *)
(* trail, the handle stays null, no query chain is created and the stored  *)
(* initialization parameters are kept, so that a later initialize, query   *)
(* or processQuery attempts connection resolution again.                   *)
(***************************************************************************)
C39_FailedInitializeLeavesUninitialized ==
  \A r \in 1..Len(runs) :
    ResolutionFailed(r) =>
      /\ \E o1 \in AsyncTierOutcomes("standard"),
            o2 \in AsyncTierOutcomes("restricted"),
            o3 \in AsyncTierOutcomes("restricted") :
           /\ createSafeConnection(o1, o2, o3).success = FALSE
           /\ MessageOfFailure(runs[r]) = ResolutionFailureMessage(o1, o2, o3)
           /\ Includes(MessageOfFailure(runs[r]), ErrorMessageOf(o3.value))
           /\ Includes(MessageOfFailure(runs[r]),
                       Join(createSafeConnection(o1, o2, o3).diagnostics, <<"\n">>))
      /\ r = Len(runs) =>
           /\ db = Null
           /\ queryChain = Null
           /\ initParams = output.value.initParams
           /\ Truthy(initParams)
      /\ r < Len(runs) => AttemptedResolution(r + 1)

\* initialize failed on all tiers, and the query called after it resolved the
\* connection and went on to the schema round-trip.
C39_Witness ==
  /\ Len(runs) = 2
  /\ runs[1].op = "initialize" /\ ResolutionFailed(1)
  /\ runs[2].op = "query" /\ AttemptedResolution(2)
  /\ \E i \in EventsOf("established") : events[i].run = 2
  /\ \E i \in EventsOf("raw") : events[i].run = 2

(***************************************************************************)
(* C40.  After initialize has succeeded once on an instance, every further *)
(* explicit initialize call fails with 'Already initialized' (also after   *)
(* disconnect) and leaves the handle, the query chain and the dialect      *)
(* unchanged; no second connection is opened by it.                        *)
(***************************************************************************)
\* A call of initialize has returned without an error.
InitializeSucceeded ==
  \E s \in 1..Len(runs) : runs[s].op = "initialize" /\ ReturnedFrom(s)

C40_SecondInitializeRejected ==
  [][\A r \in 1..Len(runs') :
       (/\ r > Len(runs)
        /\ runs'[r].op = "initialize"
        /\ InitializeSucceeded)
         => /\ runs'[r].pc = "done"
            /\ runs'[r].result = Thrown(Err(MsgAlreadyInitialized))
            /\ db' = db
            /\ queryChain' = queryChain
            /\ dbType' = dbType
            /\ events' = events]_vars

\* initialize, disconnect, then initialize again: the second initialize is
\* rejected and the instance stays without a handle; one connection was made.
C40_Witness ==
  /\ Len(runs) = 3
  /\ runs[1].op = "initialize" /\ ReturnedFrom(1)
  /\ runs[2].op = "disconnect" /\ ReturnedFrom(2)
  /\ runs[3].op = "initialize" /\ runs[3].pc = "done"
  /\ runs[3].result = Thrown(Err(MsgAlreadyInitialized))
  /\ db = Null
  /\ queryChain = TheChain
  /\ Cardinality(EventsOf("connect")) = 1
  /\ Cardinality(EventsOf("destroy")) = 1

=============================================================================
